---- MODULE Spec2Model ----
(***************************************************************************)
(* pdf-ops: merge (src/src/merge.rs), split (src/src/split.rs), page-range *)
(* specs (src/src/spec.rs) and the blocking and streaming scanners         *)
(* (src/src/scan.rs) and the interactive front-end (src/src/tui/mod.rs)    *)
(* as state machines.                                                      *)
(*                                                                         *)
(* Text is a sequence of one-character strings.  A PDF document is a       *)
(* record [objects, max_id, trailer]; objects maps object numbers to       *)
(* uniform records [kind, parent, kids, count, pages, data].               *)
(***************************************************************************)
EXTENDS Integers, Sequences, FiniteSets, TLC

\* ------------------------------------------------------------------ bounds
\* Longest file list handed to merge.
MaxFiles == 3
\* Longest directory walk of a streaming scan.
MaxEntries == 3
\* Longest directory walk of a blocking collect, the root not counted.
MaxWalk == 3
\* Most segments in a page-range text.
MaxSegs == 2
\* Most pages of a document handed to expand_to_indexes.
MaxTotal == 3
\* Most scans the front-end starts, the first included.
MaxScans == 2
\* Most jobs the front-end starts.
MaxJobs == 2

\* ------------------------------------------------------------ generic helpers
Max2(a, b) == IF a >= b THEN a ELSE b
Min2(a, b) == IF a <= b THEN a ELSE b

Range(s) == {s[i] : i \in 1..Len(s)}

SetMax(S) == CHOOSE x \in S : \A y \in S : y <= x

\* The elements of a finite set of integers in ascending order
\* (BTreeSet::into_iter, src/src/spec.rs:46).
RECURSIVE SortedSeq(_)
SortedSeq(S) ==
    IF S = {} THEN <<>>
    ELSE LET m == CHOOSE x \in S : \A y \in S : x <= y
         IN <<m>> \o SortedSeq(S \ {m})

RECURSIVE Sum(_)
Sum(s) == IF s = <<>> THEN 0 ELSE Head(s) + Sum(Tail(s))

RECURSIVE Concat(_)
Concat(ss) == IF ss = <<>> THEN <<>> ELSE Head(ss) \o Concat(Tail(ss))

\* ------------------------------------------------------- spec.rs: parse_spec
Digits == <<"0", "1", "2", "3", "4", "5", "6", "7", "8", "9">>
IsDigit(c) == \E i \in 1..10 : Digits[i] = c
DigitVal(c) == (CHOOSE i \in 1..10 : Digits[i] = c) - 1

NoneEnd == <<>>
SomeEnd(e) == <<e>>

\* str::parse::<usize>: an optional leading '+', then at least one digit and
\* nothing but digits.  [ok, val].
RECURSIVE DecVal(_)
DecVal(s) == IF s = <<>> THEN 0
             ELSE 10 * DecVal(SubSeq(s, 1, Len(s) - 1)) + DigitVal(s[Len(s)])

parse_usize(s) ==
    LET body == IF s # <<>> /\ s[1] = "+" THEN Tail(s) ELSE s
    IN IF body # <<>> /\ \A i \in 1..Len(body) : IsDigit(body[i])
       THEN [ok |-> TRUE, val |-> DecVal(body)]
       ELSE [ok |-> FALSE, val |-> 0]

\* str::split(c): the pieces between the occurrences of c, empty pieces kept.
RECURSIVE Split(_, _)
Split(s, c) ==
    IF \E i \in 1..Len(s) : s[i] = c
    THEN LET k == CHOOSE i \in 1..Len(s) : s[i] = c /\ \A j \in 1..(i - 1) : s[j] # c
         IN <<SubSeq(s, 1, k - 1)>> \o Split(SubSeq(s, k + 1, Len(s)), c)
    ELSE <<s>>

\* str::trim
RECURSIVE Trim(_)
Trim(s) ==
    IF s = <<>> THEN s
    ELSE IF s[1] = " " THEN Trim(Tail(s))
    ELSE IF s[Len(s)] = " " THEN Trim(SubSeq(s, 1, Len(s) - 1))
    ELSE s

\* One segment of the spec (the body of the for loop): [ok, err, range].
parse_segment(raw) ==
    IF \E i \in 1..Len(raw) : raw[i] = "-"
    THEN LET k == CHOOSE i \in 1..Len(raw) : raw[i] = "-" /\ \A j \in 1..(i - 1) : raw[j] # "-"
             a == SubSeq(raw, 1, k - 1)
             b == SubSeq(raw, k + 1, Len(raw))
             pa == parse_usize(a)
             pb == parse_usize(b)
             start == IF a = <<>> THEN 1 ELSE pa.val
             end == IF b = <<>> THEN NoneEnd ELSE SomeEnd(pb.val)
         IN IF a # <<>> /\ ~pa.ok THEN [ok |-> FALSE, err |-> "InvalidNumber", range |-> <<>>]
            ELSE IF b # <<>> /\ ~pb.ok THEN [ok |-> FALSE, err |-> "InvalidNumber", range |-> <<>>]
            ELSE IF end # NoneEnd /\ end[1] < start
                 THEN [ok |-> FALSE, err |-> "InvalidSegment", range |-> <<>>]
            ELSE [ok |-> TRUE, err |-> "", range |-> [start |-> start, end |-> end]]
    ELSE LET p == parse_usize(raw)
         IN IF ~p.ok THEN [ok |-> FALSE, err |-> "InvalidNumber", range |-> <<>>]
            ELSE [ok |-> TRUE, err |-> "", range |-> [start |-> p.val, end |-> SomeEnd(p.val)]]

RECURSIVE parse_segments_skipping_bad(_)
parse_segments_skipping_bad(segs) ==
    IF segs = <<>> THEN [ok |-> TRUE, err |-> "", ranges |-> <<>>]
    ELSE LET raw == Trim(Head(segs))
             rest == parse_segments_skipping_bad(Tail(segs))
         IN IF raw = <<>> \/ ~parse_segment(raw).ok THEN rest
            ELSE [ok |-> TRUE, err |-> "", ranges |-> <<parse_segment(raw).range>> \o rest.ranges]

RECURSIVE parse_segments(_)
parse_segments(segs) ==
    IF segs = <<>> THEN [ok |-> TRUE, err |-> "", ranges |-> <<>>]
    ELSE LET raw == Trim(Head(segs))
         IN IF raw = <<>> THEN parse_segments(Tail(segs))
            ELSE LET r == parse_segment(raw)
                 IN IF ~r.ok THEN [ok |-> FALSE, err |-> r.err, ranges |-> <<>>]
                    ELSE LET rest == parse_segments(Tail(segs))
                         IN IF ~rest.ok THEN rest
                            ELSE [ok |-> TRUE, err |-> "", ranges |-> <<r.range>> \o rest.ranges]

parse_spec_last_first(spec) ==
    LET segs == Split(spec, ",")
    IN parse_segments([i \in 1..Len(segs) |-> segs[Len(segs) + 1 - i]])

parse_spec(spec) == parse_segments(Split(spec, ","))

\* --------------------------------------------------- spec.rs: expand_to_indexes
RangePages_unclamped(r, total_pages) ==
    LET start1 == Max2(r.start, 1)
        end1 == IF r.end = NoneEnd THEN total_pages ELSE r.end[1]
    IN IF total_pages = 0 \/ end1 < start1 THEN {} ELSE {p - 1 : p \in start1..end1}

RangePages(r, total_pages) ==
    LET start1 == Max2(r.start, 1)
        end1 == IF r.end = NoneEnd THEN total_pages ELSE Min2(r.end[1], total_pages)
    IN IF total_pages = 0 \/ end1 < start1 THEN {} ELSE {p - 1 : p \in start1..end1}

expand_to_indexes(ranges, total_pages) ==
    SortedSeq(UNION {RangePages(ranges[i], total_pages) : i \in 1..Len(ranges)})

\* ------------------------------------------------------------------- text
\* Text literals, one character per element.
T_a_pdf == <<"a", ".", "p", "d", "f">>
T_b_PDF == <<"b", ".", "P", "D", "F">>
T_c_pdf == <<"c", ".", "p", "d", "f">>
T_z_pdf == <<"z", ".", "p", "d", "f">>
T_m_pdf == <<"m", ".", "p", "d", "f">>
T_n_txt == <<"n", ".", "t", "x", "t">>
T_in == <<"i", "n">>
T_out == <<"o", "u", "t">>
T_sub == <<"s", "u", "b">>
T_sub_pdf == <<"s", "u", "b", ".", "p", "d", "f">>
T_d_pdf == <<"d", ".", "p", "d", "f">>

\* A path is the sequence of its components (std::path::Path).
PathA == <<T_in, T_a_pdf>>
PathB == <<T_in, T_b_PDF>>
PathC == <<T_in, T_sub, T_c_pdf>>
PathZ == <<T_in, T_z_pdf>>
PathN == <<T_in, T_n_txt>>
\* in/sub.pdf, a file beside the directory in/sub
PathS == <<T_in, T_sub_pdf>>
\* in/d.pdf, a directory
PathD == <<T_in, T_d_pdf>>
SubDir == <<T_in, T_sub>>
\* out/a.pdf, a source that lies in the output directory of a split
PathO == <<T_out, T_a_pdf>>
InputDir == <<T_in>>
OutputPath == <<T_out, T_m_pdf>>

\* ------------------------------------------------------------ lopdf documents
Obj(kind, parent, kids, count, pages, data) ==
    [kind |-> kind, parent |-> parent, kids |-> kids, count |-> count,
     pages |-> pages, data |-> data]

PageObj(parent, data) == Obj("Page", parent, <<>>, 0, 0, data)
PagesObj(parent, kids) == Obj("Pages", parent, kids, Len(kids), 0, <<>>)
CatalogObj(pages) == Obj("Catalog", 0, <<>>, 0, pages, <<>>)
OtherObj(data) == Obj("Other", 0, <<>>, 0, 0, data)

\* Dictionary::new, Dictionary::set and Dictionary::get on the trailer: a set of
\* <<key, reference>> pairs with one pair per key.
EmptyDict == {}
DictSet(d, key, ref) == {e \in d : e[1] # key} \cup {<<key, ref>>}
DictHas(d, key) == \E e \in d : e[1] = key
DictGet(d, key) == (CHOOSE e \in d : e[1] = key)[2]

\* Document::with_version("1.5")
NewDocument == [objects |-> <<>>, max_id |-> 0, trailer |-> EmptyDict]

\* The documents on disk.  DocA: two pages, a flat page tree, sparse object
\* numbers.  DocB: three pages in a nested page tree whose natural order is not
\* the order of the object numbers, and a Kids entry that is no page.  DocZ: a
\* document without pages.  DocOld: what an existing output file holds.
DocA ==
    [objects |-> (1 :> PagesObj(0, <<3, 4>>)) @@ (2 :> CatalogObj(1))
                 @@ (3 :> PageObj(1, <<"a", 1>>)) @@ (4 :> PageObj(1, <<"a", 2>>))
                 @@ (6 :> OtherObj(<<"a", 0>>)),
     max_id |-> 6,
     trailer |-> {<<"Root", 2>>, <<"Info", 6>>}]

DocB ==
    [objects |-> (2 :> CatalogObj(9)) @@ (9 :> PagesObj(0, <<7, 11, 5>>))
                 @@ (5 :> Obj("Pages", 9, <<4, 3>>, 2, 0, <<>>))
                 @@ (7 :> PageObj(9, <<"b", 1>>)) @@ (4 :> PageObj(5, <<"b", 2>>))
                 @@ (3 :> PageObj(5, <<"b", 3>>)) @@ (11 :> OtherObj(<<"b", 0>>)),
     max_id |-> 11,
     trailer |-> {<<"Root", 2>>}]

DocZ ==
    [objects |-> (1 :> PagesObj(0, <<>>)) @@ (2 :> CatalogObj(1)),
     max_id |-> 2,
     trailer |-> {<<"Root", 2>>}]

DocOld ==
    [objects |-> (1 :> PagesObj(0, <<3>>)) @@ (2 :> CatalogObj(1))
                 @@ (3 :> PageObj(1, <<"old", 1>>)),
     max_id |-> 3,
     trailer |-> {<<"Root", 2>>}]

\* Document::load(path): [ok, doc].  PathC holds bytes that are no PDF; a path
\* that names no file fails as well.
DocumentLoad(path) ==
    IF path = PathA THEN [ok |-> TRUE, doc |-> DocA]
    ELSE IF path = PathB THEN [ok |-> TRUE, doc |-> DocB]
    ELSE IF path = PathZ THEN [ok |-> TRUE, doc |-> DocZ]
    ELSE [ok |-> FALSE, doc |-> NewDocument]

\* Document::get_pages: the Kids of the page tree, depth first, keeping the
\* references to dictionaries of type Page, in natural order.
RECURSIVE PageTree(_, _, _)
PageTree(objects, node, fuel) ==
    IF fuel = 0 \/ node \notin DOMAIN objects \/ objects[node].kind # "Pages" THEN <<>>
    ELSE LET kids == objects[node].kids
             sub(k) == IF k \notin DOMAIN objects THEN <<>>
                       ELSE IF objects[k].kind = "Page" THEN <<k>>
                       ELSE IF objects[k].kind = "Pages" THEN PageTree(objects, k, fuel - 1)
                       ELSE <<>>
         IN Concat([j \in 1..Len(kids) |-> sub(kids[j])])

get_pages(doc) ==
    IF ~DictHas(doc.trailer, "Root") THEN <<>>
    ELSE LET root == DictGet(doc.trailer, "Root")
         IN IF root \notin DOMAIN doc.objects THEN <<>>
            ELSE PageTree(doc.objects, doc.objects[root].pages, Cardinality(DOMAIN doc.objects))

\* Document::renumber_objects_with(starting_id): the objects, in the order of
\* their numbers, get the numbers starting_id, starting_id + 1, ...; every
\* reference to a renumbered object is rewritten; max_id is the last number used.
NewId(ids, starting_id, id) ==
    IF id \in ids THEN starting_id + Cardinality({j \in ids : j < id}) ELSE id

RenumberObj(o, ids, starting_id) ==
    [o EXCEPT !.parent = IF @ = 0 THEN 0 ELSE NewId(ids, starting_id, @),
              !.pages = IF @ = 0 THEN 0 ELSE NewId(ids, starting_id, @),
              !.kids = [j \in 1..Len(@) |-> NewId(ids, starting_id, @[j])]]

renumber_objects_with(doc, starting_id) ==
    LET ids == DOMAIN doc.objects
        old(n) == CHOOSE id \in ids : NewId(ids, starting_id, id) = n
        news == {NewId(ids, starting_id, id) : id \in ids}
    IN [objects |-> [n \in news |-> RenumberObj(doc.objects[old(n)], ids, starting_id)],
        max_id |-> starting_id + Cardinality(ids) - 1,
        trailer |-> {<<e[1], NewId(ids, starting_id, e[2])>> : e \in doc.trailer}]

\* BTreeMap::extend: the entries of `more` are inserted, replacing equal keys.
Extend(objects, more) ==
    [id \in DOMAIN objects \cup DOMAIN more |->
        IF id \in DOMAIN more THEN more[id] ELSE objects[id]]

\* BTreeMap::insert
Insert(objects, id, o) == Extend(objects, id :> o)

\* ------------------------------------------------------- scan.rs: the filters
\* The bytes of the characters the model uses, in ascending order.
ByteOrder ==
    <<" ", "*", "+", ",", "-", ".", "/", "0", "1", "2", "3", "4", "5", "6", "7", "8", "9",
      "?", "D", "F", "P", "[", "]", "a", "b", "c", "d", "f", "i", "m", "n", "o", "p", "s",
      "t", "u", "x", "z">>
Code(c) == CHOOSE i \in 1..Len(ByteOrder) : ByteOrder[i] = c

\* u8::to_ascii_lowercase
ToLower(c) == IF c = "D" THEN "d" ELSE IF c = "F" THEN "f" ELSE IF c = "P" THEN "p" ELSE c

\* str::eq_ignore_ascii_case
eq_ignore_ascii_case(s, t) ==
    Len(s) = Len(t) /\ \A i \in 1..Len(s) : ToLower(s[i]) = ToLower(t[i])

\* Path::extension: what follows the last '.' of the file name; none when the
\* name has no '.', or only a leading one.  [some, ext].
extension(path) ==
    LET name == IF path = <<>> THEN <<>> ELSE path[Len(path)]
        dots == {i \in 2..Len(name) : name[i] = "."}
    IN IF dots = {} THEN [some |-> FALSE, ext |-> <<>>]
       ELSE [some |-> TRUE, ext |-> SubSeq(name, SetMax(dots) + 1, Len(name))]

IsPdf(path) ==
    LET e == extension(path) IN e.some /\ eq_ignore_ascii_case(e.ext, <<"p", "d", "f">>)

\* Path::strip_prefix(input_dir).unwrap_or(path)
strip_prefix(path, base) ==
    IF Len(path) >= Len(base) /\ SubSeq(path, 1, Len(base)) = base
    THEN SubSeq(path, Len(base) + 1, Len(path))
    ELSE path

\* The text of a path: its components joined by '/'.
RECURSIVE PathText(_)
PathText(path) ==
    IF path = <<>> THEN <<>>
    ELSE IF Len(path) = 1 THEN path[1]
    ELSE path[1] \o <<"/">> \o PathText(Tail(path))

\* Glob::new: a pattern with an unclosed character class is malformed.
RECURSIVE ClassesClosed(_, _)
ClassesClosed(pat, open) ==
    IF pat = <<>> THEN ~open
    ELSE IF ~open /\ Head(pat) = "[" THEN ClassesClosed(Tail(pat), TRUE)
    ELSE IF open /\ Head(pat) = "]" THEN ClassesClosed(Tail(pat), FALSE)
    ELSE ClassesClosed(Tail(pat), open)

GlobValid(pat) == ClassesClosed(pat, FALSE)

\* Glob matching with the default options of globset (literal_separator off:
\* '*' and '?' match '/' too; case sensitive), for patterns of literals, '*', '?'.
RECURSIVE GlobMatch(_, _)
GlobMatch(pat, text) ==
    IF pat = <<>> THEN text = <<>>
    ELSE IF Head(pat) = "*"
         THEN \E k \in 0..Len(text) : GlobMatch(Tail(pat), SubSeq(text, k + 1, Len(text)))
    ELSE IF text = <<>> THEN FALSE
    ELSE IF Head(pat) = "?" THEN GlobMatch(Tail(pat), Tail(text))
    ELSE Head(pat) = Head(text) /\ GlobMatch(Tail(pat), Tail(text))

build_globset_unchecked(patterns) == [ok |-> TRUE, globs |-> patterns]

\* build_globset: [ok, globs]
build_globset(patterns) ==
    IF \A i \in 1..Len(patterns) : GlobValid(patterns[i])
    THEN [ok |-> TRUE, globs |-> patterns]
    ELSE [ok |-> FALSE, globs |-> <<>>]

\* GlobSet::is_empty and GlobSet::is_match
GlobSetIsEmpty(globs) == globs = <<>>
GlobSetIsMatch(globs, rel) == \E i \in 1..Len(globs) : GlobMatch(globs[i], PathText(rel))

\* The filter of collect_pdfs_cfg: the chain of .filter() calls on an entry
\* that was read.
EntryMatches_include_wins(cfg, include_set, exclude_set, e) ==
    /\ e.is_file
    /\ IsPdf(e.path)
    /\ ~\E i \in 1..Len(cfg.extra_exclude_paths) : e.path = cfg.extra_exclude_paths[i]
    /\ LET rel == strip_prefix(e.path, cfg.input_dir)
       IN \/ ~GlobSetIsEmpty(include_set) /\ GlobSetIsMatch(include_set, rel)
          \/ ~GlobSetIsMatch(exclude_set, rel)

EntryMatches(cfg, include_set, exclude_set, e) ==
    /\ e.is_file
    /\ IsPdf(e.path)
    /\ ~\E i \in 1..Len(cfg.extra_exclude_paths) : e.path = cfg.extra_exclude_paths[i]
    /\ LET rel == strip_prefix(e.path, cfg.input_dir)
           include_ok == IF GlobSetIsEmpty(include_set) THEN TRUE
                         ELSE GlobSetIsMatch(include_set, rel)
           exclude_hit == IF GlobSetIsEmpty(exclude_set) THEN FALSE
                          ELSE GlobSetIsMatch(exclude_set, rel)
       IN include_ok /\ ~exclude_hit

\* Ord for Path: component by component, a component by its bytes.
RECURSIVE BytesLess(_, _)
BytesLess(s, t) ==
    IF t = <<>> THEN FALSE
    ELSE IF s = <<>> THEN TRUE
    ELSE IF Head(s) # Head(t) THEN Code(Head(s)) < Code(Head(t))
    ELSE BytesLess(Tail(s), Tail(t))

RECURSIVE PathLess(_, _)
PathLess(p, q) ==
    IF q = <<>> THEN FALSE
    ELSE IF p = <<>> THEN TRUE
    ELSE IF Head(p) # Head(q) THEN BytesLess(Head(p), Head(q))
    ELSE PathLess(Tail(p), Tail(q))

\* Vec::sort
RECURSIVE InsertSorted(_, _)
InsertSorted(sorted, p) ==
    IF sorted = <<>> THEN <<p>>
    ELSE IF PathLess(p, Head(sorted)) THEN <<p>> \o sorted
    ELSE <<Head(sorted)>> \o InsertSorted(Tail(sorted), p)

SortPaths_unsorted(ps) == ps

RECURSIVE SortPaths(_)
SortPaths(ps) ==
    IF ps = <<>> THEN <<>>
    ELSE InsertSorted(SortPaths(SubSeq(ps, 1, Len(ps) - 1)), ps[Len(ps)])

\* WalkDir::new(input_dir).max_depth(d): the entries the walk yields, in walk
\* order.  An entry is [ok, is_file, path]; ok = FALSE is an entry that could
\* not be read.  max_depth is <<>> (None) or <<d>>.
WalkOk(is_file, path) == [ok |-> TRUE, is_file |-> is_file, path |-> path]
WalkErr(path) == [ok |-> FALSE, is_file |-> FALSE, path |-> path]

RECURSIVE SelectSeq2(_, _)
SelectSeq2(s, keep) ==
    IF s = <<>> THEN <<>>
    ELSE IF keep[1] THEN <<Head(s)>> \o SelectSeq2(Tail(s), Tail(keep))
    ELSE SelectSeq2(Tail(s), Tail(keep))

WalkDir(cfg, tree) ==
    SelectSeq2(tree, [j \in 1..Len(tree) |->
        cfg.max_depth = <<>> \/ Len(tree[j].path) - Len(cfg.input_dir) <= cfg.max_depth[1]])

\* collect_pdfs_cfg: [ok, paths]
collect_pdfs_cfg(cfg, tree) ==
    LET inc == build_globset(cfg.includes)
        exc == build_globset(cfg.excludes)
        wd == WalkDir(cfg, tree)
        keep == [j \in 1..Len(wd) |-> wd[j].ok /\ EntryMatches(cfg, inc.globs, exc.globs, wd[j])]
        out == SelectSeq2(wd, keep)
    IN IF ~inc.ok \/ ~exc.ok THEN [ok |-> FALSE, paths |-> <<>>]
       ELSE [ok |-> TRUE, paths |-> SortPaths([j \in 1..Len(out) |-> out[j].path])]

ScanConfig(input_dir, includes, excludes, extra_exclude_paths, max_depth) ==
    [input_dir |-> input_dir, includes |-> includes, excludes |-> excludes,
     extra_exclude_paths |-> extra_exclude_paths, max_depth |-> max_depth]

\* Glob patterns and directory trees of the model.
G_pdf == <<"*", ".", "p", "d", "f">>
G_sub == <<"s", "u", "b", "/", "*">>
G_bad == <<"[", "a">>

TreeEmpty == <<WalkOk(FALSE, InputDir)>>
TreeBA == <<WalkOk(FALSE, InputDir), WalkOk(TRUE, PathB), WalkOk(TRUE, PathA)>>
TreeABC == <<WalkOk(FALSE, InputDir), WalkOk(TRUE, PathA), WalkOk(FALSE, <<T_in, T_sub>>),
             WalkOk(TRUE, PathC), WalkOk(TRUE, PathB)>>
TreeZN == <<WalkOk(FALSE, InputDir), WalkErr(<<T_in, T_sub>>), WalkOk(TRUE, PathN),
            WalkOk(TRUE, PathZ)>>

\* ------------------------------------------------------------------ state
VARIABLES
    \* merge: the call and its arguments
    entry,          \* "run" or "run_with_files"
    files,          \* files: &[PathBuf]
    pages_spec,     \* Option<&str>: <<>> or <<text>>
    force,
    cfg,            \* merge::run: the ScanConfig it builds
    tree,           \* merge::run: what the walk of input_dir yields
    \* the filesystem at the output path: [dir, file]; dir says whether the
    \* parent directory exists, file is <<>> or <<the document stored>>
    fs0,            \* as it was when the call started
    fs,
    \* merge: the locals of run and merge_selected_pages
    m_pc,
    m_i,            \* the position of `for path in files`
    doc,
    page_ids,
    pages_id,
    catalog_id,
    progress,       \* the calls the ProgressSink received, in order
    loaded,         \* the paths Document::load was called on, in order
    m_result,       \* "none", "ok", "err"
    m_err,          \* which error: "scan", "empty", "exists", "load", "spec", "page", "write"
    \* split: the call and its arguments
    input,          \* the source document's path
    each,
    ranges_spec,    \* Option<&str>: <<>> or <<text>>
    pattern,
    s_force,
    \* split: the output directory: [dir, files]; files maps the names of the
    \* files in it to the documents they hold
    out0,           \* as it was when the call started
    out,
    \* split: the locals of run
    s_pc,
    groups,
    s_idx,          \* the position of `for (idx, g) in groups.iter().enumerate()`
    written,        \* the names of the files saved, in order
    s_progress,     \* the calls the ProgressSink received, in order
    s_result,       \* "none", "ok", "err"
    s_err,          \* which error: "load", "nopages", "spec", "policy", "page", "write"
    \* scan_stream
    sc_cfg,         \* the ScanConfig moved into the worker
    entries,        \* what the worker's walk yields, in walk order
    flags,          \* the AtomicBool cells: cell -> BOOLEAN
    w_cell,         \* the cell behind the worker's handle (cancel_clone)
    w_pc,           \* where the worker is
    w_idx,          \* how many entries the walk has yielded
    sent,           \* the events the worker has sent (tx.send), in order
    chan,           \* the events in the channel, not yet received
    rx_alive,       \* whether the Receiver still exists
    received,       \* the events the consumer has received, in order
    sent_at_cancel, \* how many events had been sent when cancel was first called; -1 before
    \* collect_pdfs_cfg
    cl_cfg,         \* cfg: &ScanConfig
    cl_tree,        \* what the walk of cfg.input_dir yields, in the filesystem's order
    cl_pc,
    cl_walked,      \* how many entries the walk has been asked for
    cl_result,      \* [ok, paths]
    \* parse_spec and expand_to_indexes
    sp_segs,        \* the segments the text was written from
    sp_text,        \* spec: &str
    sp_pc,
    sp_parsed,      \* what parse_spec returned: [ok, err, ranges]
    sp_ranges,      \* ranges: &[PageRange]
    sp_total,       \* total_pages
    sp_indexes,     \* what expand_to_indexes returned
    \* ensure_unique_path
    u_p,            \* the name of p in its directory
    u_dir,          \* the directory: [names, upto], see DirExists
    u_pc,
    u_i,            \* the local i
    u_ret,          \* what was returned: <<>> or <<name>>
    \* tui: AppState, the UI channel, the scans and the jobs
    app_input_dir,
    app_scan_depth,
    app_files,          \* FileItem: [path, checked]
    app_selected,
    app_order,          \* indexes into app_files, from 0
    app_order_selected,
    app_focus,
    app_mode,
    app_input_mode,
    app_pend,           \* pend_input and pend_out_dir: <<>> or <<[input, out_dir]>>
    app_scanning,
    app_job_running,
    scans,              \* every scan started so far; app.cancel is the handle of the last
    ui_chan,            \* the messages sent on tx and not yet received
    jobs,               \* the job threads that have not yet sent JobDone
    jobs_started

merge_vars == <<entry, files, pages_spec, force, cfg, tree, fs0, fs, m_pc, m_i, doc,
                page_ids, pages_id, catalog_id, progress, loaded, m_result, m_err>>

split_vars == <<input, each, ranges_spec, pattern, s_force, out0, out, s_pc, groups, s_idx,
                written, s_progress, s_result, s_err>>

scan_vars == <<sc_cfg, entries, flags, w_cell, w_pc, w_idx, sent, chan, rx_alive, received,
               sent_at_cancel>>

collect_vars == <<cl_cfg, cl_tree, cl_pc, cl_walked, cl_result>>

specfn_vars == <<sp_segs, sp_text, sp_pc, sp_parsed, sp_ranges, sp_total, sp_indexes>>

unique_vars == <<u_p, u_dir, u_pc, u_i, u_ret>>

tui_vars == <<app_input_dir, app_scan_depth, app_files, app_selected, app_order,
              app_order_selected, app_focus, app_mode, app_input_mode, app_pend,
              app_scanning, app_job_running, scans, ui_chan, jobs, jobs_started>>

vars == <<merge_vars, split_vars, scan_vars, collect_vars, specfn_vars, unique_vars, tui_vars>>

\* ------------------------------------------------------------ progress.rs
PSetLen(n) == [op |-> "set_len", n |-> n, msg |-> <<>>]
PInc(n) == [op |-> "inc", n |-> n, msg |-> <<>>]
PSetMessage(msg) == [op |-> "set_message", n |-> 0, msg |-> msg]
PFinish(msg) == [op |-> "finish", n |-> 0, msg |-> msg]

\* --------------------------------------------------------------- merge.rs
\* Path::exists on the output path, and the overwrite protection.
OutputExists(f) == f.file # <<>>
overwrite_refused_never(f, frc) == FALSE
overwrite_refused(f, frc) == OutputExists(f) /\ ~frc

\* std::fs::create_dir_all(parent)
create_dir_all(f) == [f EXCEPT !.dir = TRUE]

\* Document::save(output): File::create fails when the parent directory is
\* missing.  [ok, fs]
DocumentSave(d, f) ==
    IF f.dir THEN [ok |-> TRUE, fs |-> [f EXCEPT !.file = <<d>>]]
    ELSE [ok |-> FALSE, fs |-> f]

\* let offset = doc.max_id + 1
renumber_offset_no_plus_one(d) == d.max_id
renumber_offset(d) == d.max_id + 1

\* The pages of one source that are kept: all of them without a spec, those
\* whose position is among the indexes with one.  indices is <<>> (None) or
\* <<idxs>>.
RECURSIVE kept_from(_, _, _)
kept_from(pages, idxs, i) ==
    IF i >= Len(pages) THEN <<>>
    ELSE (IF i \in Range(idxs) THEN <<pages[i + 1]>> ELSE <<>>) \o kept_from(pages, idxs, i + 1)

kept_pages_ignoring_spec(pages, indices) == pages
kept_pages(pages, indices) ==
    IF indices = <<>> THEN pages ELSE kept_from(pages, indices[1], 0)

\* page_ids.extend(current)
extend_page_ids_in_front(pids, current) == current \o pids
extend_page_ids(pids, current) == pids \o current

\* One turn of `for path in files`, after set_message: [err, doc, page_ids].
merge_source_skipping_failures(d, pids, path, spec) ==
    LET ld == DocumentLoad(path)
        pdf0 == ld.doc
        total_pages == Len(get_pages(pdf0))
        parsed == IF spec = <<>> THEN [ok |-> TRUE, err |-> "", ranges |-> <<>>]
                  ELSE parse_spec(spec[1])
        indices == IF spec = <<>> THEN <<>>
                   ELSE <<expand_to_indexes(parsed.ranges, total_pages)>>
        pdf == renumber_objects_with(pdf0, renumber_offset(d))
        current == kept_pages(get_pages(pdf), indices)
    IN IF ~ld.ok THEN [err |-> "", doc |-> d, page_ids |-> pids]
       ELSE IF ~parsed.ok THEN [err |-> "", doc |-> d, page_ids |-> pids]
       ELSE [err |-> "",
             doc |-> [d EXCEPT !.max_id = pdf.max_id,
                               !.objects = Extend(d.objects, pdf.objects)],
             page_ids |-> extend_page_ids(pids, current)]

merge_source(d, pids, path, spec) ==
    LET ld == DocumentLoad(path)
        pdf0 == ld.doc
        total_pages == Len(get_pages(pdf0))
        parsed == IF spec = <<>> THEN [ok |-> TRUE, err |-> "", ranges |-> <<>>]
                  ELSE parse_spec(spec[1])
        indices == IF spec = <<>> THEN <<>>
                   ELSE <<expand_to_indexes(parsed.ranges, total_pages)>>
        pdf == renumber_objects_with(pdf0, renumber_offset(d))
        current == kept_pages(get_pages(pdf), indices)
    IN IF ~ld.ok THEN [err |-> "load", doc |-> d, page_ids |-> pids]
       ELSE IF ~parsed.ok THEN [err |-> "spec", doc |-> d, page_ids |-> pids]
       ELSE [err |-> "",
             doc |-> [d EXCEPT !.max_id = pdf.max_id,
                               !.objects = Extend(d.objects, pdf.objects)],
             page_ids |-> extend_page_ids(pids, current)]

\* Document::new_object_id: [doc, id]
new_object_id(d) == [doc |-> [d EXCEPT !.max_id = d.max_id + 1], id |-> d.max_id + 1]

\* for &pid in &page_ids { ... set("Parent", pages_id) }: [err, objects]
set_parents_of_none(objects, pids, node) == [err |-> "", objects |-> objects]
RECURSIVE set_parents(_, _, _)
set_parents(objects, pids, node) ==
    IF pids = <<>> THEN [err |-> "", objects |-> objects]
    ELSE LET pid == Head(pids)
         IN IF pid \notin DOMAIN objects THEN [err |-> "page", objects |-> objects]
            ELSE IF objects[pid].kind = "Other" THEN [err |-> "page", objects |-> objects]
            ELSE set_parents([objects EXCEPT ![pid].parent = node], Tail(pids), node)

\* The new page-tree node.
pages_dict_count_of_last(pids) == Obj("Pages", 0, pids, Max2(Len(pids) - 1, 0), 0, <<>>)
pages_dict(pids) == Obj("Pages", 0, pids, Len(pids), 0, <<>>)

\* What follows the loop, up to doc.compress(): [err, doc, pages_id, catalog_id]
build_output(d, pids) ==
    LET a1 == new_object_id(d)
        sp == set_parents(d.objects, pids, a1.id)
        o1 == Insert(sp.objects, a1.id, pages_dict(pids))
        a2 == new_object_id([a1.doc EXCEPT !.objects = o1])
        o2 == Insert(o1, a2.id, CatalogObj(a1.id))
    IN IF sp.err # ""
       THEN [err |-> sp.err, doc |-> a1.doc, pages_id |-> a1.id, catalog_id |-> 0]
       ELSE [err |-> "",
             doc |-> [a2.doc EXCEPT !.objects = o2,
                                    !.trailer = DictSet(EmptyDict, "Root", a2.id)],
             pages_id |-> a1.id, catalog_id |-> a2.id]

\* Path::file_name
file_name(path) == path[Len(path)]

\* What a step of merge leaves alone.
MergeFrame == UNCHANGED <<split_vars, scan_vars, collect_vars, specfn_vars, unique_vars,
                          tui_vars>>

MergeFail(e) ==
    /\ m_pc' = "failed"
    /\ m_result' = "err"
    /\ m_err' = e

\* merge::run, up to the call of merge_selected_pages.
RunScan ==
    /\ m_pc = "start"
    /\ entry = "run"
    /\ fs' = create_dir_all(fs)
    /\ LET pdf_files == collect_pdfs_cfg(cfg, tree)
       IN IF ~pdf_files.ok
          THEN /\ MergeFail("scan")
               /\ UNCHANGED <<files, progress>>
          ELSE IF pdf_files.paths = <<>>
          THEN /\ MergeFail("empty")
               /\ UNCHANGED <<files, progress>>
          ELSE /\ files' = pdf_files.paths
               /\ progress' = progress \o <<PSetLen(Len(pdf_files.paths)), PSetMessage(<<"p">>)>>
               /\ m_pc' = "merge"
               /\ UNCHANGED <<m_result, m_err>>
    /\ UNCHANGED <<entry, pages_spec, force, cfg, tree, fs0, m_i, doc, page_ids, pages_id,
                   catalog_id, loaded>>
    /\ MergeFrame

\* merge::run_with_files: the call of merge_selected_pages.
RunWithFiles ==
    /\ m_pc = "start"
    /\ entry = "run_with_files"
    /\ m_pc' = "merge"
    /\ UNCHANGED <<entry, files, pages_spec, force, cfg, tree, fs0, fs, m_i, doc, page_ids,
                   pages_id, catalog_id, progress, loaded, m_result, m_err>>
    /\ MergeFrame

\* merge_selected_pages: the overwrite protection and the new document.
MergeCheck ==
    /\ m_pc = "merge"
    /\ IF overwrite_refused(fs, force)
       THEN /\ MergeFail("exists")
            /\ UNCHANGED <<m_i, doc, page_ids>>
       ELSE /\ doc' = NewDocument
            /\ page_ids' = <<>>
            /\ m_i' = 1
            /\ m_pc' = "loop"
            /\ UNCHANGED <<m_result, m_err>>
    /\ UNCHANGED <<entry, files, pages_spec, force, cfg, tree, fs0, fs, pages_id, catalog_id,
                   progress, loaded>>
    /\ MergeFrame

\* merge_selected_pages: one turn of the loop over the files.
MergeSource ==
    /\ m_pc = "loop"
    /\ m_i <= Len(files)
    /\ LET path == files[m_i]
           r == merge_source(doc, page_ids, path, pages_spec)
       IN /\ loaded' = Append(loaded, path)
          /\ IF r.err # ""
             THEN /\ MergeFail(r.err)
                  /\ progress' = Append(progress, PSetMessage(file_name(path)))
                  /\ UNCHANGED <<m_i, doc, page_ids>>
             ELSE /\ doc' = r.doc
                  /\ page_ids' = r.page_ids
                  /\ progress' = progress \o <<PSetMessage(file_name(path)), PInc(1)>>
                  /\ m_i' = m_i + 1
                  /\ UNCHANGED <<m_pc, m_result, m_err>>
    /\ UNCHANGED <<entry, files, pages_spec, force, cfg, tree, fs0, fs, pages_id, catalog_id>>
    /\ MergeFrame

\* merge_selected_pages: the page tree, the catalog, the trailer, and the save.
MergeBuild ==
    /\ m_pc = "loop"
    /\ m_i > Len(files)
    /\ LET b == build_output(doc, page_ids)
           sv == DocumentSave(b.doc, fs)
       IN /\ doc' = b.doc
          /\ pages_id' = b.pages_id
          /\ catalog_id' = b.catalog_id
          /\ IF b.err # ""
             THEN MergeFail(b.err) /\ UNCHANGED fs
             ELSE IF ~sv.ok
             THEN MergeFail("write") /\ UNCHANGED fs
             ELSE /\ fs' = sv.fs
                  /\ IF entry = "run"
                     THEN m_pc' = "run_finish" /\ UNCHANGED m_result
                     ELSE m_pc' = "done" /\ m_result' = "ok"
                  /\ UNCHANGED m_err
    /\ UNCHANGED <<entry, files, pages_spec, force, cfg, tree, fs0, m_i, page_ids, progress,
                   loaded>>
    /\ MergeFrame

\* merge::run: progress.finish and Ok(()).
RunFinish ==
    /\ m_pc = "run_finish"
    /\ progress' = Append(progress, PFinish(<<"d">>))
    /\ m_pc' = "done"
    /\ m_result' = "ok"
    /\ UNCHANGED <<entry, files, pages_spec, force, cfg, tree, fs0, fs, m_i, doc, page_ids,
                   pages_id, catalog_id, loaded, m_err>>
    /\ MergeFrame

\* The inputs of the model.
MergePaths == {PathA, PathB, PathC, PathZ}
FileLists == UNION {[1..n -> MergePaths] : n \in 0..MaxFiles}

S_1to2 == <<"1", "-", "2">>
S_2open == <<"2", "-">>
S_3and1 == <<"3", ",", "1">>
S_dup == <<"1", ",", " ", "-", "1">>
S_far == <<"9">>
S_notnum == <<"x">>
S_inverted == <<"2", "-", "1">>
PageSpecs == {<<>>, <<S_1to2>>, <<S_2open>>, <<S_3and1>>, <<S_dup>>, <<S_far>>,
              <<S_notnum>>, <<S_inverted>>}

MergeTrees == {TreeEmpty, TreeBA, TreeABC, TreeZN}
MergeGlobs == {<<<<>>, <<>>>>, <<<<G_pdf>>, <<>>>>, <<<<>>, <<G_sub>>>>,
               <<<<G_bad>>, <<>>>>, <<<<>>, <<G_bad>>>>}

\* merge::run builds the config from its arguments: the output path is
\* excluded, the depth is unlimited.
RunConfig(includes, excludes) ==
    ScanConfig(InputDir, includes, excludes, <<OutputPath>>, <<>>)

\* The output path when the call starts: no parent directory, an empty parent
\* directory, or an existing output file.
FsStates == {[dir |-> FALSE, file |-> <<>>], [dir |-> TRUE, file |-> <<>>],
             [dir |-> TRUE, file |-> <<DocOld>>]}

MergeInit ==
    /\ entry \in {"run", "run_with_files"}
    /\ IF entry = "run"
       THEN /\ files = <<>>
            /\ tree \in MergeTrees
            /\ \E g \in MergeGlobs : cfg = RunConfig(g[1], g[2])
       ELSE /\ files \in FileLists
            /\ tree = TreeEmpty
            /\ cfg = RunConfig(<<>>, <<>>)
    /\ pages_spec \in PageSpecs
    /\ force \in BOOLEAN
    /\ fs0 \in FsStates
    /\ fs = fs0
    /\ m_pc = "start"
    /\ m_i = 0
    /\ doc = NewDocument
    /\ page_ids = <<>>
    /\ pages_id = 0
    /\ catalog_id = 0
    /\ progress = <<>>
    /\ loaded = <<>>
    /\ m_result = "none"
    /\ m_err = ""

\* No merge is running.
MergeIdle ==
    /\ entry = "run_with_files"
    /\ files = <<>>
    /\ tree = TreeEmpty
    /\ cfg = RunConfig(<<>>, <<>>)
    /\ pages_spec = <<>>
    /\ force = FALSE
    /\ fs0 = [dir |-> FALSE, file |-> <<>>]
    /\ fs = fs0
    /\ m_pc = "idle"
    /\ m_i = 0
    /\ doc = NewDocument
    /\ page_ids = <<>>
    /\ pages_id = 0
    /\ catalog_id = 0
    /\ progress = <<>>
    /\ loaded = <<>>
    /\ m_result = "none"
    /\ m_err = ""

MergeNext ==
    \/ RunScan
    \/ RunWithFiles
    \/ MergeCheck
    \/ MergeSource
    \/ MergeBuild
    \/ RunFinish

\* --------------------------------------------------------------- split.rs
\* usize::to_string
RECURSIVE to_string(_)
to_string(n) ==
    IF n < 10 THEN <<Digits[n + 1]>> ELSE to_string(n \div 10) \o <<Digits[(n % 10) + 1]>>

StartsWith(s, t) == Len(s) >= Len(t) /\ SubSeq(s, 1, Len(t)) = t

\* str::replace(from, to): the occurrences of `from`, left to right, without
\* overlap.
RECURSIVE Replace(_, _, _)
Replace(s, from, to) ==
    IF s = <<>> THEN <<>>
    ELSE IF StartsWith(s, from)
         THEN to \o Replace(SubSeq(s, Len(from) + 1, Len(s)), from, to)
    ELSE <<Head(s)>> \o Replace(Tail(s), from, to)

K_base == <<"{", "b", "a", "s", "e", "}">>
K_start == <<"{", "s", "t", "a", "r", "t", "}">>
K_end == <<"{", "e", "n", "d", "}">>
K_index == <<"{", "i", "n", "d", "e", "x", "}">>

fill_pattern(pat, base, start, end, index) ==
    Replace(Replace(Replace(Replace(pat, K_base, base), K_start, to_string(start)),
                    K_end, to_string(end)), K_index, to_string(index))

\* Path::file_stem: the file name without its extension.
file_stem(path) ==
    LET name == file_name(path)
        e == extension(path)
    IN IF e.some THEN SubSeq(name, 1, Len(name) - Len(e.ext) - 1) ELSE name

\* The bound of the retries of ensure_unique_path.
MaxAttempts == 10000

\* Path::exists for a file name in the output directory.
NameExists(o, name) == name \in DOMAIN o.files

\* ensure_unique_path: the candidate with the suffix _i, from i on.
UniqueCandidate(name, i) ==
    LET e == extension(<<name>>)
    IN file_stem(<<name>>) \o <<"_">> \o to_string(i)
       \o (IF e.some /\ e.ext # <<>> THEN <<".">> \o e.ext ELSE <<>>)

RECURSIVE unique_from(_, _, _)
unique_from(o, name, i) ==
    LET cand == UniqueCandidate(name, i)
    IN IF ~NameExists(o, cand) THEN cand
       ELSE IF i + 1 > MaxAttempts THEN cand
       ELSE unique_from(o, name, i + 1)

ensure_unique_path_keeps_name(o, name) == name
ensure_unique_path(o, name) ==
    IF ~NameExists(o, name) THEN name ELSE unique_from(o, name, 1)

\* The groups of the run: [ok, err, groups]
split_groups(e, spec, total_pages) ==
    IF e THEN [ok |-> TRUE, err |-> "",
               groups |-> [p \in 1..total_pages |-> [start |-> p, end |-> SomeEnd(p)]]]
    ELSE IF spec # <<>>
    THEN LET r == parse_spec(spec[1])
         IN IF r.ok THEN [ok |-> TRUE, err |-> "", groups |-> r.ranges]
            ELSE [ok |-> FALSE, err |-> "spec", groups |-> <<>>]
    ELSE [ok |-> FALSE, err |-> "policy", groups |-> <<>>]

\* The clamped bounds of a group.
group_start(g) == Max2(g.start, 1)
group_end(g, total_pages) ==
    Min2(IF g.end = NoneEnd THEN total_pages ELSE g.end[1], total_pages)

\* The pages of the copy whose 1-based position lies in [start, end].
RECURSIVE pages_in_range(_, _, _, _)
pages_in_range(pages, start, end, i) ==
    IF i >= Len(pages) THEN <<>>
    ELSE (IF i + 1 >= start /\ i + 1 <= end THEN <<pages[i + 1]>> ELSE <<>>)
         \o pages_in_range(pages, start, end, i + 1)

\* Document::load(input) while the output directory holds o: a source that
\* lies in the output directory is read as the directory holds it now.
DocumentLoadIn(o, path) ==
    IF Len(path) = 2 /\ path[1] = T_out
    THEN IF o.dir /\ NameExists(o, path[2])
         THEN [ok |-> TRUE, doc |-> o.files[path[2]]]
         ELSE [ok |-> FALSE, doc |-> NewDocument]
    ELSE DocumentLoad(path)

\* The document of one group: a fresh load, renumbered into a new document,
\* then the page tree, catalog and trailer as in merge.  [err, doc, page_ids]
split_group(o, path, start, end) ==
    LET ld == DocumentLoadIn(o, path)
        out_doc == NewDocument
        part_pdf == renumber_objects_with(ld.doc, renumber_offset(out_doc))
        pids == pages_in_range(get_pages(part_pdf), start, end, 0)
        d1 == [out_doc EXCEPT !.max_id = part_pdf.max_id,
                              !.objects = Extend(out_doc.objects, part_pdf.objects)]
        b == build_output(d1, pids)
    IN IF ~ld.ok THEN [err |-> "load", doc |-> out_doc, page_ids |-> <<>>]
       ELSE [err |-> b.err, doc |-> b.doc, page_ids |-> pids]

\* What a step of split leaves alone.
SplitFrame == UNCHANGED <<merge_vars, scan_vars, collect_vars, specfn_vars, unique_vars,
                          tui_vars>>

SplitFail(e) ==
    /\ s_pc' = "failed"
    /\ s_result' = "err"
    /\ s_err' = e

\* split::run, up to the loop over the groups.
SplitStart ==
    /\ s_pc = "start"
    /\ out' = [out EXCEPT !.dir = TRUE]
    /\ LET pdf == DocumentLoadIn(out, input)
           total_pages == Len(get_pages(pdf.doc))
           gs == split_groups(each, ranges_spec, total_pages)
       IN IF ~pdf.ok THEN SplitFail("load") /\ UNCHANGED <<groups, s_idx, s_progress>>
          ELSE IF total_pages = 0
          THEN SplitFail("nopages") /\ UNCHANGED <<groups, s_idx, s_progress>>
          ELSE IF ~gs.ok THEN SplitFail(gs.err) /\ UNCHANGED <<groups, s_idx, s_progress>>
          ELSE /\ groups' = gs.groups
               /\ s_idx' = 0
               /\ s_progress' = s_progress \o <<PSetLen(Len(gs.groups)), PSetMessage(<<"p">>)>>
               /\ s_pc' = "loop"
               /\ UNCHANGED <<s_result, s_err>>
    /\ UNCHANGED <<input, each, ranges_spec, pattern, s_force, out0, written>>
    /\ SplitFrame

\* for (idx, g) in groups.iter().enumerate(): the {index} of the group is idx + 1
group_index_counting_written(idx) == Len(written) + 1
group_index(idx) == idx + 1

\* What the environment does to one turn of the loop: nothing, the source can
\* no longer be read, File::create of the output fails, or the write fails after
\* File::create has truncated the file.
Faults == {"none", "load", "create", "write"}

\* What a failed write leaves behind: a file cut short.
TruncatedFile == NewDocument

\* split::run: one turn of the loop over the groups.
SplitGroup ==
    /\ s_pc = "loop"
    /\ s_idx < Len(groups)
    /\ \E fault \in Faults :
       LET g == groups[s_idx + 1]
           \* the local total_pages, counted before the loop
           total_pages == Len(get_pages(DocumentLoadIn(out0, input).doc))
           start == group_start(g)
           end == group_end(g, total_pages)
           r == split_group(out, input, start, end)
           out_name == fill_pattern(pattern, file_stem(input), start, end,
                                   group_index(s_idx))
           out_path == IF NameExists(out, out_name) /\ ~s_force
                       THEN ensure_unique_path(out, out_name)
                       ELSE out_name
       IN IF end < start
          THEN /\ s_idx' = s_idx + 1
               /\ UNCHANGED <<out, written, s_progress, s_pc, s_result, s_err>>
          ELSE IF fault = "load" \/ r.err # ""
          THEN /\ SplitFail(IF fault = "load" THEN "load" ELSE r.err)
               /\ UNCHANGED <<out, written, s_progress, s_idx>>
          ELSE IF fault \in {"create", "write"}
          THEN /\ SplitFail("save")
               /\ out' = IF fault = "write"
                         THEN [out EXCEPT !.files = Extend(out.files, out_path :> TruncatedFile)]
                         ELSE out
               /\ UNCHANGED <<written, s_progress, s_idx>>
          ELSE /\ out' = [out EXCEPT !.files = Extend(out.files, out_path :> r.doc)]
               /\ written' = Append(written, out_path)
               /\ s_progress' = Append(s_progress, PInc(1))
               /\ s_idx' = s_idx + 1
               /\ UNCHANGED <<s_pc, s_result, s_err>>
    /\ UNCHANGED <<input, each, ranges_spec, pattern, s_force, out0, groups>>
    /\ SplitFrame

\* split::run: progress.finish and Ok(()).
SplitFinish ==
    /\ s_pc = "loop"
    /\ s_idx >= Len(groups)
    /\ s_progress' = Append(s_progress, PFinish(<<"d">>))
    /\ s_pc' = "done"
    /\ s_result' = "ok"
    /\ UNCHANGED <<input, each, ranges_spec, pattern, s_force, out0, out, groups, s_idx,
                   written, s_err>>
    /\ SplitFrame

\* The inputs of the model.
S_1to2and3 == <<"1", "-", "2", ",", "3", "-", "3">>
S_1and1 == <<"1", ",", "1">>
S_9and1 == <<"9", ",", "1">>
S_9 == <<"9">>
RangeSpecs == {<<>>, <<S_1to2and3>>, <<S_2open>>, <<S_1and1>>, <<S_9and1>>, <<S_9>>,
               <<S_notnum>>}

N_base_index == <<"{", "b", "a", "s", "e", "}", "_", "{", "i", "n", "d", "e", "x", "}",
                  ".", "p", "d", "f">>
N_start_end == <<"p", "{", "s", "t", "a", "r", "t", "}", "-", "{", "e", "n", "d", "}",
                 ".", "p", "d", "f">>
N_base == <<"{", "b", "a", "s", "e", "}", ".", "p", "d", "f">>
Patterns == {N_base_index, N_start_end, N_base}

\* The output directory when the call starts: missing, empty, holding files
\* under names the run may produce, or holding the source itself.
OutStates ==
    {[dir |-> FALSE, files |-> <<>>],
     [dir |-> TRUE, files |-> <<>>],
     [dir |-> TRUE, files |-> (T_a_pdf :> DocOld) @@ (<<"a", "_", "1", ".", "p", "d", "f">> :> DocOld)],
     [dir |-> TRUE, files |-> (<<"p", "1", "-", "1", ".", "p", "d", "f">> :> DocOld)],
     [dir |-> TRUE, files |-> (T_a_pdf :> DocA)],
     [dir |-> TRUE, files |-> (T_a_pdf :> DocB)]}

SplitInit ==
    /\ input \in {PathA, PathB, PathC, PathZ, PathO}
    /\ each \in BOOLEAN
    /\ ranges_spec \in RangeSpecs
    /\ pattern \in Patterns
    /\ s_force \in BOOLEAN
    /\ out0 \in OutStates
    /\ out = out0
    /\ s_pc = "start"
    /\ groups = <<>>
    /\ s_idx = 0
    /\ written = <<>>
    /\ s_progress = <<>>
    /\ s_result = "none"
    /\ s_err = ""

\* No split is running.
SplitIdle ==
    /\ input = PathA
    /\ each = FALSE
    /\ ranges_spec = <<>>
    /\ pattern = N_base
    /\ s_force = FALSE
    /\ out0 = [dir |-> FALSE, files |-> <<>>]
    /\ out = out0
    /\ s_pc = "idle"
    /\ groups = <<>>
    /\ s_idx = 0
    /\ written = <<>>
    /\ s_progress = <<>>
    /\ s_result = "none"
    /\ s_err = ""

SplitNext ==
    \/ SplitStart
    \/ SplitGroup
    \/ SplitFinish

\* ------------------------------------------------------ scan.rs: scan_stream
Found(path) == [ev |-> "Found", path |-> path]
Error(path) == [ev |-> "Error", path |-> path]
Done == [ev |-> "Done", path |-> <<>>]

\* The cell of the handle the caller holds.
CallerCell == 1

\* let cancel_clone = CancelHandle(cancel.0.clone()): the same cell.
cancel_clone_fresh_cell(c) == c + 1
cancel_clone(c) == c

\* CancelHandle::is_canceled
is_canceled(cell) == flags[cell]

\* Where the worker goes after the Error event of a malformed glob, and after
\* the Error event of an entry that could not be read.
glob_error_next == "send_done"
walk_error_return == "end"
walk_error_next == "next"

\* tx.send(ev), its result dropped: the event reaches the channel while the
\* Receiver exists.
Send(ev) ==
    /\ sent' = Append(sent, ev)
    /\ chan' = IF rx_alive THEN Append(chan, ev) ELSE chan

\* What a step of the scan leaves alone.
ScanFrame == UNCHANGED <<merge_vars, split_vars, collect_vars, specfn_vars, unique_vars,
                         tui_vars>>

\* The worker: build_globset(&cfg.includes).
WorkerIncludes ==
    /\ w_pc = "includes"
    /\ IF build_globset(sc_cfg.includes).ok
       THEN w_pc' = "excludes" /\ UNCHANGED <<sent, chan>>
       ELSE w_pc' = glob_error_next /\ Send(Error(<<>>))
    /\ UNCHANGED <<sc_cfg, entries, flags, w_cell, w_idx, rx_alive, received, sent_at_cancel>>
    /\ ScanFrame

\* The worker: build_globset(&cfg.excludes).
WorkerExcludes ==
    /\ w_pc = "excludes"
    /\ IF build_globset(sc_cfg.excludes).ok
       THEN w_pc' = "next" /\ UNCHANGED <<sent, chan>>
       ELSE w_pc' = glob_error_next /\ Send(Error(<<>>))
    /\ UNCHANGED <<sc_cfg, entries, flags, w_cell, w_idx, rx_alive, received, sent_at_cancel>>
    /\ ScanFrame

\* The worker: the walk yields its next entry, or ends.
WorkerNextEntry ==
    /\ w_pc = "next"
    /\ IF w_idx < Len(entries)
       THEN w_idx' = w_idx + 1 /\ w_pc' = "check"
       ELSE w_pc' = "send_done" /\ UNCHANGED w_idx
    /\ UNCHANGED <<sc_cfg, entries, flags, w_cell, sent, chan, rx_alive, received,
                   sent_at_cancel>>
    /\ ScanFrame

\* The worker: if cancel_clone.is_canceled() { break; }
WorkerCheckCancel ==
    /\ w_pc = "check"
    /\ w_pc' = IF is_canceled(w_cell) THEN "send_done" ELSE "entry"
    /\ UNCHANGED <<sc_cfg, entries, flags, w_cell, w_idx, sent, chan, rx_alive, received,
                   sent_at_cancel>>
    /\ ScanFrame

\* The worker's own filter of an entry that was read: each `continue`, then
\* the include and exclude rules.
StreamMatches_without_excludes(conf, include_set, exclude_set, e) ==
    IF ~e.is_file THEN FALSE
    ELSE IF ~IsPdf(e.path) THEN FALSE
    ELSE IF \E i \in 1..Len(conf.extra_exclude_paths) : e.path = conf.extra_exclude_paths[i]
    THEN FALSE
    ELSE LET rel == strip_prefix(e.path, conf.input_dir)
         IN IF GlobSetIsEmpty(include_set) THEN TRUE ELSE GlobSetIsMatch(include_set, rel)

StreamMatches(conf, include_set, exclude_set, e) ==
    IF ~e.is_file THEN FALSE
    ELSE IF ~IsPdf(e.path) THEN FALSE
    ELSE IF \E i \in 1..Len(conf.extra_exclude_paths) : e.path = conf.extra_exclude_paths[i]
    THEN FALSE
    ELSE LET rel == strip_prefix(e.path, conf.input_dir)
             include_ok == IF GlobSetIsEmpty(include_set) THEN TRUE
                           ELSE GlobSetIsMatch(include_set, rel)
             exclude_hit == IF GlobSetIsEmpty(exclude_set) THEN FALSE
                            ELSE GlobSetIsMatch(exclude_set, rel)
         IN include_ok /\ ~exclude_hit

\* The worker: match ent { Ok(e) => ..., Err(e) => ... }
WorkerEntry ==
    /\ w_pc = "entry"
    /\ LET e == entries[w_idx]
           inc == build_globset(sc_cfg.includes).globs
           exc == build_globset(sc_cfg.excludes).globs
       IN IF ~e.ok
          THEN w_pc' = walk_error_next /\ Send(Error(e.path))
          ELSE IF StreamMatches(sc_cfg, inc, exc, e)
          THEN w_pc' = "next" /\ Send(Found(e.path))
          ELSE w_pc' = "next" /\ UNCHANGED <<sent, chan>>
    /\ UNCHANGED <<sc_cfg, entries, flags, w_cell, w_idx, rx_alive, received, sent_at_cancel>>
    /\ ScanFrame

\* The worker: let _ = tx.send(ScanEvent::Done), and the thread ends.
WorkerSendDone ==
    /\ w_pc = "send_done"
    /\ Send(Done)
    /\ w_pc' = "end"
    /\ UNCHANGED <<sc_cfg, entries, flags, w_cell, w_idx, rx_alive, received, sent_at_cancel>>
    /\ ScanFrame

Worker ==
    \/ WorkerIncludes
    \/ WorkerExcludes
    \/ WorkerNextEntry
    \/ WorkerCheckCancel
    \/ WorkerEntry
    \/ WorkerSendDone

\* The caller: CancelHandle::cancel on its handle.
Cancel ==
    /\ ~flags[CallerCell]
    /\ flags' = [flags EXCEPT ![CallerCell] = TRUE]
    /\ sent_at_cancel' = IF sent_at_cancel = -1 THEN Len(sent) ELSE sent_at_cancel
    /\ UNCHANGED <<sc_cfg, entries, w_cell, w_pc, w_idx, sent, chan, rx_alive, received>>
    /\ ScanFrame

\* The caller: Receiver::recv takes the oldest event.
Receive ==
    /\ rx_alive
    /\ chan # <<>>
    /\ received' = Append(received, Head(chan))
    /\ chan' = Tail(chan)
    /\ UNCHANGED <<sc_cfg, entries, flags, w_cell, w_pc, w_idx, sent, rx_alive, sent_at_cancel>>
    /\ ScanFrame

\* The caller: the Receiver is dropped, with what it had not received.
DropReceiver ==
    /\ rx_alive
    /\ rx_alive' = FALSE
    /\ chan' = <<>>
    /\ UNCHANGED <<sc_cfg, entries, flags, w_cell, w_pc, w_idx, sent, received, sent_at_cancel>>
    /\ ScanFrame

\* The inputs of the model: a walk starts with the root and yields different
\* entries, at most MaxEntries of them after the root.
WalkPool == {WalkOk(TRUE, PathA), WalkOk(TRUE, PathB), WalkOk(TRUE, PathN),
             WalkErr(<<T_in, T_sub>>)}
Walks ==
    UNION {{<<WalkOk(FALSE, InputDir)>> \o w : w \in
              {f \in [1..n -> WalkPool] : \A i, j \in 1..n : i # j => f[i] # f[j]}}
           : n \in 0..MaxEntries}

\* The configs of the model: the include and exclude rules of MergeGlobs, an
\* exclude rule that hits, and a path excluded by name.
ScanConfigs ==
    {ScanConfig(InputDir, g[1], g[2], <<>>, <<>>) : g \in MergeGlobs}
    \cup {ScanConfig(InputDir, <<>>, <<G_pdf>>, <<>>, <<>>),
          ScanConfig(InputDir, <<G_pdf>>, <<>>, <<PathA>>, <<>>),
          ScanConfig(InputDir, <<>>, <<>>, <<PathB>>, <<1>>)}

\* scan_stream, up to the spawn of the worker.
ScanInit ==
    /\ sc_cfg \in ScanConfigs
    /\ \E w \in Walks : entries = WalkDir(sc_cfg, w)
    /\ flags = [c \in {CallerCell, CallerCell + 1} |-> FALSE]
    /\ w_cell = cancel_clone(CallerCell)
    /\ w_pc = "includes"
    /\ w_idx = 0
    /\ sent = <<>>
    /\ chan = <<>>
    /\ rx_alive = TRUE
    /\ received = <<>>
    /\ sent_at_cancel = -1

\* No scan is running.
ScanIdle ==
    /\ sc_cfg = ScanConfig(InputDir, <<>>, <<>>, <<>>, <<>>)
    /\ entries = <<>>
    /\ flags = [c \in {CallerCell, CallerCell + 1} |-> FALSE]
    /\ w_cell = CallerCell
    /\ w_pc = "idle"
    /\ w_idx = 0
    /\ sent = <<>>
    /\ chan = <<>>
    /\ rx_alive = FALSE
    /\ received = <<>>
    /\ sent_at_cancel = -1

ScanNext ==
    \/ Worker
    \/ Cancel
    \/ Receive
    \/ DropReceiver

\* ------------------------------------------------- scan.rs: collect_pdfs_cfg
\* What a step of the blocking collect leaves alone.
CollectFrame == UNCHANGED <<merge_vars, split_vars, scan_vars, specfn_vars, unique_vars,
                            tui_vars>>

\* build_globset(&cfg.includes)?, build_globset(&cfg.excludes)?
CollectGlobs ==
    /\ cl_pc = "globs"
    /\ LET inc == build_globset(cl_cfg.includes)
           exc == build_globset(cl_cfg.excludes)
       IN IF ~inc.ok \/ ~exc.ok
          THEN /\ cl_pc' = "end"
               /\ cl_result' = [ok |-> FALSE, paths |-> <<>>]
          ELSE /\ cl_pc' = "walk"
               /\ UNCHANGED cl_result
    /\ UNCHANGED <<cl_cfg, cl_tree, cl_walked>>
    /\ CollectFrame

\* The walk with its filters, the sort and the return.
CollectWalk ==
    /\ cl_pc = "walk"
    /\ cl_walked' = Len(WalkDir(cl_cfg, cl_tree))
    /\ cl_result' = collect_pdfs_cfg(cl_cfg, cl_tree)
    /\ cl_pc' = "end"
    /\ UNCHANGED <<cl_cfg, cl_tree>>
    /\ CollectFrame

\* The inputs of the model.  A walk yields the root, then at most MaxWalk
\* different entries in any order that has in/sub before in/sub/c.pdf.
G_a == <<"a", ".", "p", "d", "f">>
CollectPool == {WalkOk(TRUE, PathA), WalkOk(TRUE, PathB), WalkOk(FALSE, SubDir),
                WalkOk(TRUE, PathC), WalkOk(TRUE, PathS), WalkOk(TRUE, PathN),
                WalkOk(FALSE, PathD), WalkErr(PathZ)}
WalkOrders ==
    UNION {{<<WalkOk(FALSE, InputDir)>> \o w : w \in
              {f \in [1..n -> CollectPool] :
                  /\ \A i, j \in 1..n : i # j => f[i] # f[j]
                  /\ \A j \in 1..n : f[j].path = PathC =>
                         \E i \in 1..(j - 1) : f[i].path = SubDir}}
           : n \in 0..MaxWalk}
CollectConfigs ==
    {ScanConfig(InputDir, inc, exc, extra, depth) :
        inc \in {<<>>, <<G_pdf>>, <<G_a, G_sub>>, <<G_pdf, G_bad>>},
        exc \in {<<>>, <<G_sub>>, <<G_bad>>},
        extra \in {<<>>, <<PathA>>},
        depth \in {<<>>, <<1>>}}

CollectInit ==
    /\ cl_cfg \in CollectConfigs
    /\ cl_tree \in WalkOrders
    /\ cl_pc = "globs"
    /\ cl_walked = 0
    /\ cl_result = [ok |-> FALSE, paths |-> <<>>]

\* No blocking collect is running.
CollectIdle ==
    /\ cl_cfg = ScanConfig(InputDir, <<>>, <<>>, <<>>, <<>>)
    /\ cl_tree = <<>>
    /\ cl_pc = "idle"
    /\ cl_walked = 0
    /\ cl_result = [ok |-> FALSE, paths |-> <<>>]

CollectNext ==
    \/ CollectGlobs
    \/ CollectWalk

\* ------------------------------------- spec.rs: parse_spec, expand_to_indexes
\* What a call of one of the two functions leaves alone.
SpecFnFrame == UNCHANGED <<merge_vars, split_vars, scan_vars, collect_vars, unique_vars,
                           tui_vars>>

\* parse_spec(spec)
ParseSpec ==
    /\ sp_pc = "parse"
    /\ sp_parsed' = parse_spec(sp_text)
    /\ sp_pc' = "parsed"
    /\ UNCHANGED <<sp_segs, sp_text, sp_ranges, sp_total, sp_indexes>>
    /\ SpecFnFrame

\* expand_to_indexes(ranges, total_pages)
ExpandToIndexes ==
    /\ sp_pc = "expand"
    /\ sp_indexes' = expand_to_indexes(sp_ranges, sp_total)
    /\ sp_pc' = "expanded"
    /\ UNCHANGED <<sp_segs, sp_text, sp_parsed, sp_ranges, sp_total>>
    /\ SpecFnFrame

\* The inputs of the model.  A text is written from at most MaxSegs segments
\* joined by commas; a segment is a page number, 'A-B', 'A-', '-B', nothing, or
\* something that holds no number, and may have blanks around it.
Seg(kind, a, b, pad) == [kind |-> kind, a |-> a, b |-> b, pad |-> pad]
Nums == {0, 1, 2, 10}
SegPool ==
    {Seg("single", a, a, pad) : a \in Nums, pad \in BOOLEAN}
    \cup {Seg("closed", a, b, FALSE) : a \in Nums, b \in Nums}
    \cup {Seg("open_end", a, 0, FALSE) : a \in Nums}
    \cup {Seg("open_start", 0, b, FALSE) : b \in Nums}
    \cup {Seg("empty", 0, 0, pad) : pad \in BOOLEAN}
    \cup {Seg("word", 0, 0, FALSE), Seg("word_end", 1, 0, FALSE)}
SegLists == UNION {[1..n -> SegPool] : n \in 0..MaxSegs}

SegText(s) ==
    LET body == CASE s.kind = "single" -> to_string(s.a)
                  [] s.kind = "closed" -> to_string(s.a) \o <<"-">> \o to_string(s.b)
                  [] s.kind = "open_end" -> to_string(s.a) \o <<"-">>
                  [] s.kind = "open_start" -> <<"-">> \o to_string(s.b)
                  [] s.kind = "empty" -> <<>>
                  [] s.kind = "word" -> <<"x">>
                  [] s.kind = "word_end" -> to_string(s.a) \o <<"-">> \o <<"x">>
    IN IF s.pad THEN <<" ">> \o body \o <<" ">> ELSE body

RECURSIVE SpecText(_)
SpecText(segs) ==
    IF segs = <<>> THEN <<>>
    ELSE IF Len(segs) = 1 THEN SegText(segs[1])
    ELSE SegText(segs[1]) \o <<",">> \o SpecText(Tail(segs))

\* The ranges a caller may hand to expand_to_indexes: any start, any end.
PageRanges ==
    {[start |-> s, end |-> e] :
        s \in 0..(MaxTotal + 1),
        e \in {NoneEnd} \cup {SomeEnd(n) : n \in 0..(MaxTotal + 1)}}
RangeLists ==
    {<<>>} \cup {<<r>> : r \in PageRanges} \cup {<<r, q>> : r \in PageRanges, q \in PageRanges}

SpecFnInit ==
    /\ \/ /\ sp_pc = "parse"
          /\ sp_segs \in SegLists
          /\ sp_text = SpecText(sp_segs)
          /\ sp_ranges = <<>>
          /\ sp_total = 0
       \/ /\ sp_pc = "expand"
          /\ sp_segs = <<>>
          /\ sp_text = <<>>
          /\ sp_ranges \in RangeLists
          /\ sp_total \in 0..MaxTotal
    /\ sp_parsed = [ok |-> FALSE, err |-> "", ranges |-> <<>>]
    /\ sp_indexes = <<>>

\* Neither function is being called.
SpecFnIdle ==
    /\ sp_pc = "idle"
    /\ sp_segs = <<>>
    /\ sp_text = <<>>
    /\ sp_ranges = <<>>
    /\ sp_total = 0
    /\ sp_parsed = [ok |-> FALSE, err |-> "", ranges |-> <<>>]
    /\ sp_indexes = <<>>

SpecFnNext ==
    \/ ParseSpec
    \/ ExpandToIndexes

\* ---------------------------------------- split.rs: ensure_unique_path, by step
\* A directory as ensure_unique_path sees it: the names in `names` exist, and
\* so do the candidates of p with the suffixes _1 .. _upto.

\* The i with name = UniqueCandidate(p, i), read off the name; 0 if there is none.
CandidateIndex(p, name) ==
    LET st == file_stem(<<p>>)
        e == extension(<<p>>)
        tl == IF e.some /\ e.ext # <<>> THEN <<".">> \o e.ext ELSE <<>>
        mid == SubSeq(name, Len(st) + 2, Len(name) - Len(tl))
    IN IF /\ Len(name) > Len(st) + 1 + Len(tl)
          /\ SubSeq(name, 1, Len(st)) = st
          /\ name[Len(st) + 1] = "_"
          /\ SubSeq(name, Len(name) - Len(tl) + 1, Len(name)) = tl
          /\ \A k \in 1..Len(mid) : IsDigit(mid[k])
          /\ mid[1] # "0"
       THEN DecVal(mid)
       ELSE 0

\* Path::exists
DirExists(d, p, name) ==
    \/ name \in d.names
    \/ CandidateIndex(p, name) \in 1..d.upto

\* if i > 10000 { return cand; }
attempts_exhausted_one_late(i) == i > MaxAttempts + 1
attempts_exhausted(i) == i > MaxAttempts

UniqueFrame == UNCHANGED <<merge_vars, split_vars, scan_vars, collect_vars, specfn_vars,
                           tui_vars>>

UniqueReturn(name) ==
    /\ u_ret' = <<name>>
    /\ u_pc' = "returned"

\* ensure_unique_path, up to the loop.
UniqueEnter ==
    /\ u_pc = "enter"
    /\ IF ~DirExists(u_dir, u_p, u_p)
       THEN UniqueReturn(u_p) /\ UNCHANGED u_i
       ELSE /\ u_i' = 1
            /\ u_pc' = "loop"
            /\ UNCHANGED u_ret
    /\ UNCHANGED <<u_p, u_dir>>
    /\ UniqueFrame

\* ensure_unique_path: one turn of the loop.
UniqueTry ==
    /\ u_pc = "loop"
    /\ LET cand == UniqueCandidate(u_p, u_i)
       IN IF ~DirExists(u_dir, u_p, cand)
          THEN UniqueReturn(cand) /\ UNCHANGED u_i
          ELSE /\ u_i' = u_i + 1
               /\ IF attempts_exhausted(u_i + 1)
                  THEN UniqueReturn(cand)
                  ELSE UNCHANGED <<u_pc, u_ret>>
    /\ UNCHANGED <<u_p, u_dir>>
    /\ UniqueFrame

\* The inputs of the model: a name with an extension and one without, in
\* directories where the name is free, where some candidates are taken, where
\* all but the last are taken, and where all are.
T_a == <<"a">>
UniqueNames == {T_a_pdf, T_a}
UniqueDirs(p) ==
    {[names |-> {}, upto |-> 0],
     [names |-> {}, upto |-> MaxAttempts],
     [names |-> {p}, upto |-> 0],
     [names |-> {p}, upto |-> 1],
     [names |-> {p, UniqueCandidate(p, 2)}, upto |-> 0],
     [names |-> {p, UniqueCandidate(p, 3)}, upto |-> 2],
     [names |-> {p, T_z_pdf}, upto |-> 2],
     [names |-> {p}, upto |-> MaxAttempts - 1],
     [names |-> {p}, upto |-> MaxAttempts]}

UniqueInit ==
    /\ u_p \in UniqueNames
    /\ u_dir \in UniqueDirs(u_p)
    /\ u_pc = "enter"
    /\ u_i = 0
    /\ u_ret = <<>>

\* ensure_unique_path is not being called.
UniqueIdle ==
    /\ u_p = T_a_pdf
    /\ u_dir = [names |-> {}, upto |-> 0]
    /\ u_pc = "idle"
    /\ u_i = 0
    /\ u_ret = <<>>

UniqueNext ==
    \/ UniqueEnter
    \/ UniqueTry

\* --------------------------------------------------------------- tui/mod.rs
\* The interactive front-end: the event loop of run on the UI thread, the
\* worker and the forwarder thread of every scan, and the job threads.  The
\* status line, the text overlays and the Error and Progress messages, which
\* only change the status line, are left out; the keys that open a picker and
\* move in it are folded into the Enter that confirms the pick.

\* Vec::remove, Vec::insert and slice::swap, positions from 0.
RemoveAt(s, i) == SubSeq(s, 1, i) \o SubSeq(s, i + 2, Len(s))
InsertAt(s, i, x) == SubSeq(s, 1, i) \o <<x>> \o SubSeq(s, i + 1, Len(s))
Swap(s, i, j) == [s EXCEPT ![i + 1] = s[j + 1], ![j + 1] = s[i + 1]]

\* usize::saturating_sub
saturating_sub(a, b) == IF a >= b THEN a - b ELSE 0

\* The directory the front-end looks at: in/a.pdf (2 pages) and in/sub/big.pdf
\* (21 pages).
T_big_pdf == <<"b", "i", "g", ".", "p", "d", "f">>
PathBig == <<T_in, T_sub, T_big_pdf>>
TuiTree == <<WalkOk(FALSE, InputDir), WalkOk(TRUE, PathA), WalkOk(FALSE, SubDir),
             WalkOk(TRUE, PathBig)>>

\* lopdf::Document::load(&first) and get_pages().len(), 0 when the load fails.
PageCount(path) ==
    IF path = PathBig THEN 21
    ELSE IF path = PathA THEN Len(get_pages(DocumentLoad(PathA).doc))
    ELSE 0

\* if expected>20
LargeSplit == 20

\* The paths scan_stream sends as Found for the config spawn_scan builds, in
\* walk order.
ScanFinds(dir, depth) ==
    LET conf == ScanConfig(dir, <<>>, <<>>, <<>>, depth)
        under == SelectSeq2(TuiTree, [j \in 1..Len(TuiTree) |->
                    strip_prefix(TuiTree[j].path, dir) # TuiTree[j].path
                    \/ TuiTree[j].path = dir])
        wd == WalkDir(conf, under)
        hit == SelectSeq2(wd, [j \in 1..Len(wd) |-> StreamMatches(conf, <<>>, <<>>, wd[j])])
    IN [j \in 1..Len(hit) |-> hit[j].path]

\* One scan: the walk's matches, the worker's position, the cancel flag, the
\* scan's own channel and whether its forwarder thread still runs.
NewScan(dir, depth) ==
    [finds |-> ScanFinds(dir, depth), w_pc |-> "check", w_idx |-> 0, canceled |-> FALSE,
     rx |-> <<>>, fwd |-> TRUE]

UiFound(path) == [ev |-> "Found", path |-> path]
UiDone == [ev |-> "Done", path |-> <<>>]
UiJobDone == [ev |-> "JobDone", path |-> <<>>]

TuiFrame == UNCHANGED <<merge_vars, split_vars, scan_vars, collect_vars, specfn_vars,
                        unique_vars>>

\* spawn_scan: cancel the previous scan, clear the list, start a scan and its
\* forwarder.
spawn_scan(dir, depth) ==
    /\ Len(scans) < MaxScans
    /\ app_scanning' = TRUE
    /\ app_files' = <<>>
    /\ app_selected' = 0
    /\ scans' = Append([g \in 1..Len(scans) |->
                           IF g = Len(scans) THEN [scans[g] EXCEPT !.canceled = TRUE]
                           ELSE scans[g]],
                       NewScan(dir, depth))

\* thread::spawn of a job; the thread lives until it has sent JobDone.
spawn_job(kind, target) ==
    /\ jobs_started < MaxJobs
    /\ jobs' = jobs \cup {[id |-> jobs_started + 1, kind |-> kind, target |-> target]}
    /\ jobs_started' = jobs_started + 1

\* app.order.iter().filter_map(|&i| app.files.get(i)).map(|it| it.path.clone())
OrderedPaths ==
    LET ok == SelectSeq(app_order, LAMBDA i : i < Len(app_files))
    IN [k \in 1..Len(ok) |-> app_files[ok[k] + 1].path]

\* The output of a merge job: input_dir joined with "merged.pdf".
MergeOutput == app_input_dir \o <<T_m_pdf>>

\* choose_out_dir: the parent of an output that looks like a PDF file.
choose_out_dir == app_input_dir

\* spawn_merge_job sets job_running; spawn_split_job_params does not.
spawn_merge_job ==
    /\ app_job_running' = TRUE
    /\ spawn_job("merge", MergeOutput)

spawn_split_job_params(inp, out_dir) ==
    /\ UNCHANGED app_job_running
    /\ spawn_job("split", out_dir)

\* The event loop: one message taken off the channel.
UiRecv ==
    /\ ui_chan # <<>>
    /\ ui_chan' = Tail(ui_chan)
    /\ LET msg == Head(ui_chan)
       IN /\ app_files' = IF msg.ev = "Found"
                          THEN Append(app_files, [path |-> msg.path, checked |-> FALSE])
                          ELSE app_files
          /\ app_selected' = IF msg.ev = "Found" /\ app_selected >= Len(app_files) + 1
                             THEN Len(app_files)
                             ELSE app_selected
          /\ app_scanning' = IF msg.ev = "Done" THEN FALSE ELSE app_scanning
          /\ app_job_running' = IF msg.ev = "JobDone" THEN FALSE ELSE app_job_running
    /\ UNCHANGED <<app_input_dir, app_scan_depth, app_order, app_order_selected, app_focus,
                   app_mode, app_input_mode, app_pend, scans, jobs, jobs_started>>
    /\ TuiFrame

\* KeyCode::Tab
KeyTab ==
    /\ app_input_mode = "None"
    /\ app_focus' = IF app_focus = "Left" THEN "Right" ELSE "Left"
    /\ UNCHANGED <<app_input_dir, app_scan_depth, app_files, app_selected, app_order,
                   app_order_selected, app_mode, app_input_mode, app_pend, app_scanning,
                   app_job_running, scans, ui_chan, jobs, jobs_started>>
    /\ TuiFrame

\* KeyCode::Down and KeyCode::Up
KeyMove(down) ==
    /\ app_input_mode = "None"
    /\ IF app_focus = "Left"
       THEN /\ app_selected' = IF down
                               THEN Min2(app_selected + 1, saturating_sub(Len(app_files), 1))
                               ELSE saturating_sub(app_selected, 1)
            /\ UNCHANGED app_order_selected
       ELSE /\ app_order_selected' =
                  IF down
                  THEN Min2(app_order_selected + 1, saturating_sub(Len(app_order), 1))
                  ELSE saturating_sub(app_order_selected, 1)
            /\ UNCHANGED app_selected
    /\ UNCHANGED <<app_input_dir, app_scan_depth, app_files, app_order, app_focus, app_mode,
                   app_input_mode, app_pend, app_scanning, app_job_running, scans, ui_chan,
                   jobs, jobs_started>>
    /\ TuiFrame

\* KeyCode::Char(' '): check or uncheck the selected file.
KeySpace ==
    /\ app_input_mode = "None"
    /\ app_focus = "Left"
    /\ app_selected < Len(app_files)
    /\ LET item == app_files[app_selected + 1]
           hits == {k \in 1..Len(app_order) : app_order[k] = app_selected}
           removed == IF hits = {} THEN app_order
                      ELSE RemoveAt(app_order, (CHOOSE k \in hits : \A h \in hits : k <= h) - 1)
       IN /\ app_files' = [app_files EXCEPT ![app_selected + 1].checked = ~item.checked]
          /\ IF ~item.checked
             THEN /\ app_order' = Append(app_order, app_selected)
                  /\ app_order_selected' = Len(app_order)
             ELSE /\ app_order' = removed
                  /\ app_order_selected' =
                        IF hits = {} THEN app_order_selected
                        ELSE Min2(app_order_selected, saturating_sub(Len(removed), 1))
    /\ UNCHANGED <<app_input_dir, app_scan_depth, app_selected, app_focus, app_mode,
                   app_input_mode, app_pend, app_scanning, app_job_running, scans, ui_chan,
                   jobs, jobs_started>>
    /\ TuiFrame

\* KeyCode::Char('u'), 'd', 'U' and 'D' in the right panel.
KeyReorder(key) ==
    /\ app_input_mode = "None"
    /\ app_focus = "Right"
    /\ app_order # <<>>
    /\ app_order_selected < Len(app_order)
    /\ LET i == app_order_selected
           idx == app_order[i + 1]
           rest == RemoveAt(app_order, i)
       IN CASE key = "u" ->
                 /\ i > 0
                 /\ app_order' = Swap(app_order, i - 1, i)
                 /\ app_order_selected' = i - 1
            [] key = "d" ->
                 /\ i + 1 < Len(app_order)
                 /\ app_order' = Swap(app_order, i, i + 1)
                 /\ app_order_selected' = i + 1
            [] key = "U" ->
                 /\ app_order' = InsertAt(rest, 0, idx)
                 /\ app_order_selected' = 0
            [] key = "D" ->
                 /\ app_order' = InsertAt(rest, Len(rest), idx)
                 /\ app_order_selected' = Len(rest)
    /\ UNCHANGED <<app_input_dir, app_scan_depth, app_files, app_selected, app_focus, app_mode,
                   app_input_mode, app_pend, app_scanning, app_job_running, scans, ui_chan,
                   jobs, jobs_started>>
    /\ TuiFrame

\* KeyCode::Char('r'): rescan
KeyRescan ==
    /\ app_input_mode = "None"
    /\ spawn_scan(app_input_dir, app_scan_depth)
    /\ UNCHANGED <<app_input_dir, app_scan_depth, app_order, app_order_selected, app_focus,
                   app_mode, app_input_mode, app_pend, app_job_running, ui_chan, jobs,
                   jobs_started>>
    /\ TuiFrame

\* Enter in InputMode::PickDepth
PickDepth(d) ==
    /\ app_input_mode = "None"
    /\ app_scan_depth' = d
    /\ spawn_scan(app_input_dir, d)
    /\ UNCHANGED <<app_input_dir, app_order, app_order_selected, app_focus, app_mode,
                   app_input_mode, app_pend, app_job_running, ui_chan, jobs, jobs_started>>
    /\ TuiFrame

\* Enter in InputMode::EditInput
EditInput(new_dir) ==
    /\ app_input_mode = "None"
    /\ app_input_dir' = new_dir
    /\ app_order' = <<>>
    /\ spawn_scan(new_dir, app_scan_depth)
    /\ UNCHANGED <<app_scan_depth, app_order_selected, app_focus, app_mode, app_input_mode,
                   app_pend, app_job_running, ui_chan, jobs, jobs_started>>
    /\ TuiFrame

\* Enter in InputMode::PickMode
PickMode(m) ==
    /\ app_input_mode = "None"
    /\ app_mode # m
    /\ app_mode' = m
    /\ UNCHANGED <<app_input_dir, app_scan_depth, app_files, app_selected, app_order,
                   app_order_selected, app_focus, app_input_mode, app_pend, app_scanning,
                   app_job_running, scans, ui_chan, jobs, jobs_started>>
    /\ TuiFrame

\* KeyCode::Enter outside the menu: run the job of the mode.
KeyEnter ==
    /\ app_input_mode = "None"
    /\ ~app_job_running
    /\ app_order # <<>>
    /\ IF app_mode = "Merge"
       THEN /\ spawn_merge_job
            /\ UNCHANGED <<app_input_mode, app_pend>>
       ELSE /\ OrderedPaths # <<>>
            /\ LET first == OrderedPaths[1]
                   expected == PageCount(first)
               IN IF expected > LargeSplit
                  THEN /\ app_pend' = <<[input |-> first, out_dir |-> choose_out_dir]>>
                       /\ app_input_mode' = "ConfirmLarge"
                       /\ UNCHANGED <<app_job_running, jobs, jobs_started>>
                  ELSE /\ spawn_split_job_params(first, choose_out_dir)
                       /\ UNCHANGED <<app_input_mode, app_pend>>
    /\ UNCHANGED <<app_input_dir, app_scan_depth, app_files, app_selected, app_order,
                   app_order_selected, app_focus, app_mode, app_scanning, scans, ui_chan>>
    /\ TuiFrame

\* 'y' in InputMode::ConfirmLarge
ConfirmYes ==
    /\ app_input_mode = "ConfirmLarge"
    /\ app_pend # <<>>
    /\ app_input_mode' = "None"
    /\ app_pend' = <<>>
    /\ spawn_split_job_params(app_pend[1].input, app_pend[1].out_dir)
    /\ UNCHANGED <<app_input_dir, app_scan_depth, app_files, app_selected, app_order,
                   app_order_selected, app_focus, app_mode, app_scanning, scans, ui_chan>>
    /\ TuiFrame

\* 'n' in InputMode::ConfirmLarge
ConfirmNo ==
    /\ app_input_mode = "ConfirmLarge"
    /\ app_input_mode' = "None"
    /\ app_pend' = <<>>
    /\ UNCHANGED <<app_input_dir, app_scan_depth, app_files, app_selected, app_order,
                   app_order_selected, app_focus, app_mode, app_scanning, app_job_running,
                   scans, ui_chan, jobs, jobs_started>>
    /\ TuiFrame

TuiScanFrame ==
    /\ UNCHANGED <<app_input_dir, app_scan_depth, app_files, app_selected, app_order,
                   app_order_selected, app_focus, app_mode, app_input_mode, app_pend,
                   app_scanning, app_job_running, jobs, jobs_started>>
    /\ TuiFrame

\* The worker of scan g: the walk yields its next match or ends, and the
\* cancel flag is looked at.
ScanWorkerCheck(g) ==
    /\ scans[g].w_pc = "check"
    /\ scans' = [scans EXCEPT ![g].w_pc =
                    IF scans[g].w_idx < Len(scans[g].finds) /\ ~scans[g].canceled
                    THEN "send" ELSE "send_done"]
    /\ UNCHANGED ui_chan
    /\ TuiScanFrame

\* The worker of scan g: tx.send(ScanEvent::Found(..)) or tx.send(ScanEvent::Done)
ScanWorkerSend(g) ==
    /\ scans[g].w_pc \in {"send", "send_done"}
    /\ scans' = IF scans[g].w_pc = "send"
                THEN [scans EXCEPT ![g].rx = Append(@, UiFound(scans[g].finds[scans[g].w_idx + 1])),
                                   ![g].w_idx = @ + 1,
                                   ![g].w_pc = "check"]
                ELSE [scans EXCEPT ![g].rx = Append(@, UiDone), ![g].w_pc = "end"]
    /\ UNCHANGED ui_chan
    /\ TuiScanFrame

\* The forwarder of scan g: one event passed on to the UI channel; Done ends
\* the thread.
Forward(g) ==
    /\ scans[g].fwd
    /\ scans[g].rx # <<>>
    /\ ui_chan' = Append(ui_chan, Head(scans[g].rx))
    /\ scans' = [scans EXCEPT ![g].rx = Tail(@),
                              ![g].fwd = Head(scans[g].rx).ev # "Done"]
    /\ TuiScanFrame

\* The forwarder of scan g: ten seconds without a Found, cancel.cancel().
ForwardTimeout(g) ==
    /\ scans[g].fwd
    /\ scans[g].rx = <<>>
    /\ ~scans[g].canceled
    /\ scans' = [scans EXCEPT ![g].canceled = TRUE]
    /\ UNCHANGED ui_chan
    /\ TuiScanFrame

\* A job thread: merge::run_with_files or split::run has returned, JobDone is
\* sent.
JobFinish(j) ==
    /\ j \in jobs
    /\ jobs' = jobs \ {j}
    /\ ui_chan' = Append(ui_chan, UiJobDone)
    /\ UNCHANGED <<app_input_dir, app_scan_depth, app_files, app_selected, app_order,
                   app_order_selected, app_focus, app_mode, app_input_mode, app_pend,
                   app_scanning, app_job_running, scans, jobs_started>>
    /\ TuiFrame

\* The inputs of the model.
TuiDirs == {InputDir, SubDir}
TuiDepths == {<<1>>, <<2>>}
TuiModes == {"Merge", "Split"}

\* run, up to the event loop: AppState::new and the first spawn_scan.
TuiInit ==
    /\ app_input_dir \in TuiDirs
    /\ app_scan_depth = <<1>>
    /\ app_files = <<>>
    /\ app_selected = 0
    /\ app_order = <<>>
    /\ app_order_selected = 0
    /\ app_focus = "Left"
    /\ app_mode = "Merge"
    /\ app_input_mode = "None"
    /\ app_pend = <<>>
    /\ app_scanning = TRUE
    /\ app_job_running = FALSE
    /\ scans = <<NewScan(app_input_dir, <<1>>)>>
    /\ ui_chan = <<>>
    /\ jobs = {}
    /\ jobs_started = 0

\* The front-end is not running.
TuiIdle ==
    /\ app_input_dir = InputDir
    /\ app_scan_depth = <<1>>
    /\ app_files = <<>>
    /\ app_selected = 0
    /\ app_order = <<>>
    /\ app_order_selected = 0
    /\ app_focus = "Left"
    /\ app_mode = "Merge"
    /\ app_input_mode = "Idle"
    /\ app_pend = <<>>
    /\ app_scanning = FALSE
    /\ app_job_running = FALSE
    /\ scans = <<>>
    /\ ui_chan = <<>>
    /\ jobs = {}
    /\ jobs_started = 0

\* The threads of the scans.
ScanThreads ==
    \/ \E g \in 1..Len(scans) : ScanWorkerCheck(g)
    \/ \E g \in 1..Len(scans) : ScanWorkerSend(g)
    \/ \E g \in 1..Len(scans) : Forward(g)
    \/ \E g \in 1..Len(scans) : ForwardTimeout(g)

\* A user who selects, reorders and rescans, and starts no job.
TuiListNext ==
    \/ UiRecv
    \/ KeyTab
    \/ \E down \in BOOLEAN : KeyMove(down)
    \/ KeySpace
    \/ \E key \in {"u", "d", "U", "D"} : KeyReorder(key)
    \/ KeyRescan
    \/ \E d \in TuiDepths : PickDepth(d)
    \/ \E dir \in TuiDirs : EditInput(dir)
    \/ ScanThreads

\* A user who selects, picks the mode and runs jobs, and does not rescan.
TuiJobNext ==
    \/ UiRecv
    \/ KeySpace
    \/ \E m \in TuiModes : PickMode(m)
    \/ KeyEnter
    \/ ConfirmYes
    \/ ConfirmNo
    \/ ScanThreads
    \/ \E j \in jobs : JobFinish(j)

\* ------------------------------------------------------------ specifications
\* merge alone.
MergeSpecInit == MergeInit /\ SplitIdle /\ ScanIdle /\ CollectIdle /\ SpecFnIdle
    /\ UniqueIdle /\ TuiIdle
MergeSpec == MergeSpecInit /\ [][MergeNext]_vars

\* split alone.
SplitSpecInit == SplitInit /\ MergeIdle /\ ScanIdle /\ CollectIdle /\ SpecFnIdle
    /\ UniqueIdle /\ TuiIdle
SplitSpec == SplitSpecInit /\ [][SplitNext]_vars

\* Assembly: a merge or a split.
AssembleInit == MergeSpecInit \/ SplitSpecInit
AssembleNext == MergeNext \/ SplitNext
AssembleSpec == AssembleInit /\ [][AssembleNext]_vars

\* A streaming scan: the worker thread is scheduled as long as it can take a
\* step (its directory reads return, its sends never block).
ScanSpecInit == ScanInit /\ MergeIdle /\ SplitIdle /\ CollectIdle /\ SpecFnIdle
    /\ UniqueIdle /\ TuiIdle
ScanSpec == ScanSpecInit /\ [][ScanNext]_vars /\ WF_vars(Worker)

\* A blocking collect.
CollectSpecInit == CollectInit /\ MergeIdle /\ SplitIdle /\ ScanIdle /\ SpecFnIdle
    /\ UniqueIdle /\ TuiIdle
CollectSpec == CollectSpecInit /\ [][CollectNext]_vars

\* A call of parse_spec or of expand_to_indexes.
SpecFnSpecInit == SpecFnInit /\ MergeIdle /\ SplitIdle /\ ScanIdle /\ CollectIdle
    /\ UniqueIdle /\ TuiIdle
SpecFnSpec == SpecFnSpecInit /\ [][SpecFnNext]_vars

\* split, or ensure_unique_path alone in a directory split cannot fill by
\* itself.  Both run on the caller's thread, to the end.
UniqueSpecInit == UniqueInit /\ MergeIdle /\ SplitIdle /\ ScanIdle /\ CollectIdle
    /\ SpecFnIdle /\ TuiIdle
UniquifyInit == SplitSpecInit \/ UniqueSpecInit
UniquifyNext == SplitNext \/ UniqueNext
UniquifySpec == UniquifyInit /\ [][UniquifyNext]_vars /\ WF_vars(UniquifyNext)

\* the interactive front-end.
TuiSpecInit == TuiInit /\ MergeIdle /\ SplitIdle /\ ScanIdle /\ CollectIdle /\ SpecFnIdle
    /\ UniqueIdle
TuiListSpec == TuiSpecInit /\ [][TuiListNext]_vars
TuiJobSpec == TuiSpecInit /\ [][TuiJobNext]_vars

\* ------------------------------------------------------- merge: properties
MergeEnded == m_pc \in {"done", "failed"}

\* The document stored at the output path.
OutDoc == fs.file[1]

\* What identifies the pages of a document, in natural order.
PagesData(d) ==
    LET ps == get_pages(d) IN [j \in 1..Len(ps) |-> d.objects[ps[j]].data]

SourcePagesData(path) == PagesData(DocumentLoad(path).doc)
SourceObjects(path) == Cardinality(DOMAIN DocumentLoad(path).doc.objects)

\* The page-tree node the catalog of a document's trailer refers to.
RootPages(d) == d.objects[d.objects[DictGet(d.trailer, "Root")].pages]

\* C1: after a successful merge the output has one new page-tree node N and one
\* new catalog C: every kept page's Parent is N, N.Kids is the kept pages in
\* merge order, N.Count is the length of N.Kids, C.Pages is N and the trailer
\* holds only Root -> C.
C1_OutputStructure ==
    m_result = "ok" =>
        /\ fs.file # <<>>
        /\ {pages_id, catalog_id} \subseteq DOMAIN OutDoc.objects
        /\ pages_id # catalog_id
        /\ {id \in DOMAIN OutDoc.objects : id >= pages_id} = {pages_id, catalog_id}
        /\ OutDoc.objects[pages_id].kind = "Pages"
        /\ OutDoc.objects[pages_id].kids = page_ids
        /\ OutDoc.objects[pages_id].count = Len(OutDoc.objects[pages_id].kids)
        /\ \A j \in 1..Len(page_ids) :
              /\ OutDoc.objects[page_ids[j]].kind = "Page"
              /\ OutDoc.objects[page_ids[j]].parent = pages_id
        /\ OutDoc.objects[catalog_id].kind = "Catalog"
        /\ OutDoc.objects[catalog_id].pages = pages_id
        /\ OutDoc.trailer = {<<"Root", catalog_id>>}
        /\ get_pages(OutDoc) = page_ids

C1_Witness ==
    /\ m_result = "ok"
    /\ Len(files) = 2
    /\ files[1] = PathB
    /\ pages_spec = <<S_2open>>
    /\ Len(page_ids) = 3

\* C2: without a page spec the pages of the output are the pages of the
\* sources, in file order and then in each source's natural order, and their
\* number is the sum of the sources' page counts.
C2_ConcatenationInFileOrder ==
    (m_result = "ok" /\ pages_spec = <<>>) =>
        /\ PagesData(OutDoc) = Concat([k \in 1..Len(files) |-> SourcePagesData(files[k])])
        /\ RootPages(OutDoc).count = Sum([k \in 1..Len(files) |-> Len(SourcePagesData(files[k]))])

C2_Witness ==
    /\ m_result = "ok"
    /\ pages_spec = <<>>
    /\ files = <<PathA, PathB>>
    /\ RootPages(OutDoc).count = 5

\* C3: a page spec is expanded against each source's own page count; from
\* source i the pages at the positions expand_to_indexes(parse_spec(spec), n_i)
\* are kept, in ascending order and once each.
SelectedData(path, spec) ==
    LET pd == SourcePagesData(path)
        idx == expand_to_indexes(parse_spec(spec).ranges, Len(pd))
    IN [j \in 1..Len(idx) |-> pd[idx[j] + 1]]

C3_SpecAppliedPerSource ==
    (m_result = "ok" /\ pages_spec # <<>>) =>
        /\ PagesData(OutDoc) = Concat([k \in 1..Len(files) |-> SelectedData(files[k], pages_spec[1])])
        /\ RootPages(OutDoc).count =
              Sum([k \in 1..Len(files) |-> Len(SelectedData(files[k], pages_spec[1]))])
        /\ \A i, j \in 1..Len(page_ids) : i # j => page_ids[i] # page_ids[j]

C3_Witness ==
    /\ m_result = "ok"
    /\ pages_spec = <<S_3and1>>
    /\ files = <<PathB, PathA>>
    /\ PagesData(OutDoc) = <<<<"b", 1>>, <<"b", 3>>, <<"a", 1>>>>

\* C4: object identifiers never collide: folding a renumbered source into the
\* global table overwrites no entry, and the identifiers of the new page-tree
\* node and catalog differ from each other and from every source object's.
ObjectsOfFirst(n) == Sum([k \in 1..n |-> SourceObjects(files[k])])

C4_NoIdentifierCollision ==
    /\ (m_pc = "loop" \/ m_err \in {"load", "spec"}) =>
          Cardinality(DOMAIN doc.objects) = ObjectsOfFirst(m_i - 1)
    /\ (m_pc \in {"run_finish", "done"}) =>
          /\ Cardinality(DOMAIN doc.objects) = ObjectsOfFirst(Len(files)) + 2
          /\ pages_id # catalog_id
          /\ {pages_id, catalog_id} \subseteq DOMAIN doc.objects

C4_Witness ==
    /\ m_pc = "done"
    /\ Len(files) = 3
    /\ files[1] = files[3]
    /\ files[1] = PathA

\* C5: if the output exists and overwrite is not permitted, merge fails at
\* once: no source is loaded and the filesystem is left as it was.
C5_ExistingOutputRefused ==
    (OutputExists(fs0) /\ ~force) =>
        /\ loaded = <<>>
        /\ fs = fs0
        /\ m_pc \in {"start", "merge", "failed"}
        /\ m_pc = "failed" => m_result = "err"

C5_Witness ==
    /\ OutputExists(fs0)
    /\ ~force
    /\ m_err = "exists"
    /\ files # <<>>

\* C6: an empty file list is rejected with an error before any I/O on every
\* entry point: no directory is created and no output file is written.
C6_EmptyListRejected ==
    (MergeEnded /\ files = <<>> /\ m_err # "scan") => (m_result = "err" /\ fs = fs0)

\* C7: when merge fails before serialization (a source does not load, the
\* page spec does not parse, a kept page is missing or no dictionary) the merge
\* ends with an error and the output path is as it was; a merge that completes
\* had no such source and no such spec.
C7_FailureLeavesOutput ==
    /\ m_err \in {"load", "spec", "page"} =>
          (m_pc = "failed" /\ m_result = "err" /\ fs.file = fs0.file)
    /\ m_pc \in {"run_finish", "done"} =>
          /\ \A k \in 1..Len(files) : DocumentLoad(files[k]).ok
          /\ (pages_spec # <<>> /\ files # <<>>) => parse_spec(pages_spec[1]).ok

C7_Witness ==
    /\ m_err = "load"
    /\ m_i = 2
    /\ force
    /\ OutputExists(fs0)
    /\ fs.file = <<DocOld>>

\* ---------------------------------------------------- assembly: properties
\* The documents written by a finished merge and by the groups of a split.
Outputs ==
    (IF m_result = "ok" THEN {OutDoc} ELSE {})
    \cup {out.files[written[j]] : j \in 1..Len(written)}

\* The new page-tree node of an output, and the pages in its Kids.
NewNode(d) == d.objects[DictGet(d.trailer, "Root")].pages
Kept(d) == Range(d.objects[NewNode(d)].kids)
PageObjects(d) == {id \in DOMAIN d.objects : d.objects[id].kind = "Page"}

\* C8 as stated: after assembly every page object in the output's object
\* table, kept or not, has its Parent pointing at the output's new page-tree
\* node.
C8_EveryPageObjectReparented ==
    \A d \in Outputs : \A id \in PageObjects(d) : d.objects[id].parent = NewNode(d)

\* C8 as amended: after assembly every kept page (every page in the Kids of
\* the output's new page-tree node) has its Parent pointing at that node; a page
\* object that was not kept stays in the object table with its Parent pointing
\* at the renumbered page-tree node of its source.
C8_KeptPagesReparented ==
    \A d \in Outputs : \A id \in PageObjects(d) :
        IF id \in Kept(d)
        THEN d.objects[id].parent = NewNode(d)
        ELSE /\ d.objects[id].parent # NewNode(d)
             /\ d.objects[id].parent \in DOMAIN d.objects
             /\ d.objects[id].parent < NewNode(d)
             /\ d.objects[d.objects[id].parent].kind = "Pages"

C8_Witness ==
    /\ s_result = "ok"
    /\ Len(written) = 2
    /\ \E d \in Outputs :
          /\ Kept(d) # {}
          /\ PageObjects(d) \ Kept(d) # {}

\* ----------------------------------------------------- scan_stream: properties
CountEv(s, ev) == Cardinality({i \in 1..Len(s) : s[i].ev = ev})

\* Done is sent at most once and nothing is sent after it.
DoneIsLast ==
    /\ CountEv(sent, "Done") <= 1
    /\ CountEv(sent, "Done") = 1 => sent[Len(sent)] = Done

\* A walk that was not cancelled and whose globs are well formed visits every
\* entry and reports every entry it could not read.
ErrorsDoNotStopTheWalk ==
    (/\ w_pc = "end"
     /\ ~is_canceled(w_cell)
     /\ build_globset(sc_cfg.includes).ok
     /\ build_globset(sc_cfg.excludes).ok) =>
        /\ w_idx = Len(entries)
        /\ \A k \in 1..Len(entries) : ~entries[k].ok => Error(entries[k].path) \in Range(sent)

EventsAfterCancel ==
    IF sent_at_cancel = -1 THEN 0
    ELSE Cardinality({i \in (sent_at_cancel + 1)..Len(sent) : sent[i].ev # "Done"})

CancelTakesEffect ==
    sent_at_cancel # -1 =>
        /\ EventsAfterCancel <= 1
        /\ is_canceled(CallerCell)
        /\ is_canceled(w_cell)

\* C10: after cancel has been called the worker sends at most one further
\* Found or Error event before Done, in every interleaving; the flag, once
\* set, is never cleared and every clone of the handle sees it.
C10_CancelWithinOneEntry ==
    /\ []CancelTakesEffect
    /\ [][is_canceled(CallerCell) => is_canceled(CallerCell)']_vars

C10_Witness ==
    /\ w_pc = "end"
    /\ sent_at_cancel # -1
    /\ EventsAfterCancel = 1
    /\ w_idx < Len(entries)

\* ------------------------------------------------ blocking collect: properties
CollectReturned == cl_pc = "end" /\ cl_result.ok

\* The depth of an entry below the root, and whether the walk reaches it.
Depth(e) == Len(e.path) - Len(cl_cfg.input_dir)
Reached(e) == e.ok /\ (cl_cfg.max_depth = <<>> \/ Depth(e) <= cl_cfg.max_depth[1])

\* The root-relative text of an entry's path, and whether some pattern of a
\* list matches it.
RelText(e) == PathText(SubSeq(e.path, Len(cl_cfg.input_dir) + 1, Len(e.path)))
SomeMatch(pats, e) == \E i \in 1..Len(pats) : GlobMatch(pats[i], RelText(e))

\* The files the contract asks for.
Wanted ==
    {cl_tree[j].path : j \in {k \in 1..Len(cl_tree) :
        LET e == cl_tree[k]
        IN /\ Reached(e)
           /\ e.is_file
           /\ IsPdf(e.path)
           /\ e.path \notin Range(cl_cfg.extra_exclude_paths)
           /\ (cl_cfg.includes = <<>> \/ SomeMatch(cl_cfg.includes, e))
           /\ ~SomeMatch(cl_cfg.excludes, e)}}

AllValid(pats) == \A i \in 1..Len(pats) : GlobValid(pats[i])

\* C11: collect_pdfs_cfg returns exactly the readable regular files the walk of
\* the root reaches whose extension is 'pdf' in any case, whose path is not in
\* extra_exclude_paths, whose root-relative path matches the include set (an
\* empty one matches everything) and not the exclude set (an empty one matches
\* nothing), each once; a file matching both is left out; with well-formed
\* patterns the call succeeds, with an empty list when no file qualifies.
C11_CollectReturnsMatches ==
    /\ CollectReturned =>
          /\ Range(cl_result.paths) = Wanted
          /\ Len(cl_result.paths) = Cardinality(Wanted)
    /\ (cl_pc = "end" /\ AllValid(cl_cfg.includes) /\ AllValid(cl_cfg.excludes)) =>
          /\ cl_result.ok
          /\ Wanted = {} => cl_result.paths = <<>>

\* A file that matches the include set and the exclude set is left out while
\* another file is returned.
C11_Witness ==
    /\ CollectReturned
    /\ cl_cfg.includes # <<>>
    /\ cl_cfg.excludes # <<>>
    /\ cl_result.paths # <<>>
    /\ \E j \in 1..Len(cl_tree) :
          /\ Reached(cl_tree[j]) /\ cl_tree[j].is_file
          /\ SomeMatch(cl_cfg.includes, cl_tree[j])
          /\ SomeMatch(cl_cfg.excludes, cl_tree[j])
          /\ cl_tree[j].path \notin Range(cl_result.paths)

\* The order of two paths as full path strings, byte by byte.
StringLess(p, q) == BytesLess(PathText(p), PathText(q))

\* The same walk with the entries at positions k and k + 1 enumerated the
\* other way round.
Swapped(t, k) ==
    [j \in 1..Len(t) |-> IF j = k THEN t[k + 1] ELSE IF j = k + 1 THEN t[k] ELSE t[j]]

SameForEveryOrder ==
    \A k \in 2..(Len(cl_tree) - 1) :
        collect_pdfs_cfg(cl_cfg, Swapped(cl_tree, k)).paths = cl_result.paths

\* C12 as stated: the returned list ascends in the order of the full path
\* strings, and is the same whatever order the walk enumerates the entries in.
C12_SortedByPathString ==
    CollectReturned =>
        /\ \A i, j \in 1..Len(cl_result.paths) :
              i < j => StringLess(cl_result.paths[i], cl_result.paths[j])
        /\ SameForEveryOrder

\* C12: the returned list ascends in the order of paths, compared component by
\* component and a component byte by byte, and is the same whatever order the
\* walk enumerates the entries in.
C12_SortedByComponents ==
    CollectReturned =>
        /\ \A i, j \in 1..Len(cl_result.paths) :
              i < j => PathLess(cl_result.paths[i], cl_result.paths[j])
        /\ SameForEveryOrder

\* in/sub.pdf was enumerated before in/sub/c.pdf and is returned after it.
C12_Witness ==
    /\ CollectReturned
    /\ \E j, k \in 1..Len(cl_tree) : j < k /\ cl_tree[j].path = PathS /\ cl_tree[k].path = PathC
    /\ \E i \in 1..(Len(cl_result.paths) - 1) :
          cl_result.paths[i] = PathC /\ cl_result.paths[i + 1] = PathS

\* C13: when an include or exclude pattern is malformed the call ends in an
\* error without having asked the walk for an entry and without paths, and
\* whenever paths are returned every pattern was well formed.
C13_MalformedGlobFailsUpFront ==
    /\ (cl_pc = "end" /\ ~(AllValid(cl_cfg.includes) /\ AllValid(cl_cfg.excludes))) =>
          /\ ~cl_result.ok
          /\ cl_result.paths = <<>>
          /\ cl_walked = 0
    /\ (~AllValid(cl_cfg.includes) \/ ~AllValid(cl_cfg.excludes)) =>
          cl_pc \in {"globs", "end"} /\ cl_result.paths = <<>>

\* The call failed on a malformed pattern that comes after a well-formed one,
\* over a tree holding a PDF the other patterns let through.
C13_Witness ==
    /\ cl_pc = "end"
    /\ ~cl_result.ok
    /\ Len(cl_cfg.includes) = 2
    /\ AllValid(<<cl_cfg.includes[1]>>)
    /\ \E j \in 1..Len(cl_tree) :
          /\ cl_tree[j].is_file
          /\ IsPdf(cl_tree[j].path)
          /\ GlobMatch(cl_cfg.includes[1], RelText(cl_tree[j]))

\* ------------------------------------------------------ spec.rs: properties
\* What a written segment stands for.
Present(s) == s.kind # "empty"
Inverted(s) == (s.kind = "closed" /\ s.b < s.a) \/ (s.kind = "open_start" /\ s.b < 1)
NotANumber(s) == s.kind \in {"word", "word_end"}
WellFormed(s) == ~Inverted(s) /\ ~NotANumber(s)
SegRange(s) ==
    CASE s.kind = "single" -> [start |-> s.a, end |-> SomeEnd(s.a)]
      [] s.kind = "closed" -> [start |-> s.a, end |-> SomeEnd(s.b)]
      [] s.kind = "open_end" -> [start |-> s.a, end |-> NoneEnd]
      [] s.kind = "open_start" -> [start |-> 1, end |-> SomeEnd(s.b)]

\* C14: a text whose segments are all well formed parses to one PageRange per
\* non-empty segment, in the order written: N gives (N, Some(N)), 'A-B' gives
\* (A, Some(B)), 'A-' gives (A, None), '-B' gives (1, Some(B)); segments that
\* are empty or blank are dropped; nothing is sorted or merged.
C14_OneRangePerSegment ==
    (sp_pc = "parsed" /\ \A i \in 1..Len(sp_segs) : WellFormed(sp_segs[i])) =>
        LET present == SelectSeq(sp_segs, Present)
        IN /\ sp_parsed.ok
           /\ sp_parsed.ranges = [i \in 1..Len(present) |-> SegRange(present[i])]

\* Two overlapping ranges written in descending order come back as written.
C14_Witness ==
    /\ sp_pc = "parsed"
    /\ sp_parsed.ok
    /\ Len(sp_parsed.ranges) = 2
    /\ sp_parsed.ranges[1].start > sp_parsed.ranges[2].start
    /\ sp_parsed.ranges[1].end = NoneEnd
    /\ sp_parsed.ranges[2].end = SomeEnd(10)

\* C15: the first segment that is not well formed decides the result: an
\* invalid-number error when it holds something that is not a number, an
\* invalid-segment error when its end is below its start; the ranges of the
\* segments before it are not returned.
C15_FirstBadSegmentFails ==
    \A k \in 1..Len(sp_segs) :
        (/\ sp_pc = "parsed"
         /\ ~WellFormed(sp_segs[k])
         /\ \A i \in 1..(k - 1) : WellFormed(sp_segs[i])) =>
            /\ ~sp_parsed.ok
            /\ sp_parsed.err = IF NotANumber(sp_segs[k]) THEN "InvalidNumber"
                               ELSE "InvalidSegment"
            /\ sp_parsed.ranges = <<>>

\* A range that parsed is followed by 'A-B' with B below A.
C15_Witness ==
    /\ sp_pc = "parsed"
    /\ Len(sp_segs) = 2
    /\ WellFormed(sp_segs[1]) /\ Present(sp_segs[1])
    /\ sp_segs[2].kind = "closed" /\ Inverted(sp_segs[2])
    /\ sp_parsed.err = "InvalidSegment"

\* C16: every PageRange that parse_spec returns has start >= 1 and, when its
\* end is present, end >= start.
C16_RangesWellFormed ==
    (sp_pc = "parsed" /\ sp_parsed.ok) =>
        \A i \in 1..Len(sp_parsed.ranges) :
            LET r == sp_parsed.ranges[i]
            IN r.start >= 1 /\ (r.end # NoneEnd => r.end[1] >= r.start)

\* The pages the contract of expand_to_indexes asks for, zero-based.
WantedIndexes ==
    {p - 1 : p \in {q \in 1..sp_total :
        \E i \in 1..Len(sp_ranges) :
            LET r == sp_ranges[i]
            IN /\ q >= r.start
               /\ r.end # NoneEnd => q <= r.end[1]}}

\* C17: expand_to_indexes returns, strictly ascending, exactly the indices
\* p - 1 of the pages p of 1..total_pages that some range covers; every index
\* is below total_pages; a range whose clamped end is below its start adds
\* nothing; the result is empty when total_pages = 0.
C17_ExpandUnionSortedClamped ==
    sp_pc = "expanded" =>
        /\ \A i, j \in 1..Len(sp_indexes) : i < j => sp_indexes[i] < sp_indexes[j]
        /\ Range(sp_indexes) = WantedIndexes
        /\ \A i \in 1..Len(sp_indexes) : sp_indexes[i] \in 0..(sp_total - 1)
        /\ sp_total = 0 => sp_indexes = <<>>

\* Two overlapping ranges in descending order, one starting at 0 and one
\* ending past the last page, expand to every page once.
C17_Witness ==
    /\ sp_pc = "expanded"
    /\ sp_total >= 2
    /\ Len(sp_ranges) = 2
    /\ sp_ranges[1].start > sp_ranges[2].start
    /\ sp_ranges[1].end # NoneEnd /\ sp_ranges[1].end[1] > sp_total
    /\ sp_ranges[2].start = 0
    /\ sp_ranges[2].end # NoneEnd /\ sp_ranges[2].end[1] >= sp_ranges[1].start
    /\ Len(sp_indexes) = sp_total

\* ------------------------------------------------------- split: properties
\* The source document as it was when the run started, and its pages.
Source0 == DocumentLoadIn(out0, input).doc
TotalPages0 == Len(get_pages(Source0))

\* The groups whose clamped interval is not empty, and the last of them the
\* loop has gone through.
Processed ==
    {i \in 1..Len(groups) :
        group_end(groups[i], TotalPages0) >= group_start(groups[i])}
LastProcessed == SetMax({i \in Processed : i <= s_idx})
LastWritten == out.files[written[Len(written)]]

\* C18: a successful split leaves one file per processed group, no two groups
\* under the same name: as many files as the source has pages when every page
\* is a group, as many as there are ranges with a non-empty clamped interval
\* when the groups come from a range spec.
C18_OneFilePerGroup ==
    s_result = "ok" =>
        /\ Cardinality(Range(written)) = Cardinality(Processed)
        /\ each => Cardinality(Range(written)) = TotalPages0

\* C19: the document written for a group with clamped bounds [start, end] has
\* as its pages the source's pages at positions start..end in natural order,
\* and Count = end - start + 1.  Read off the directory while the run has not
\* failed: a failed save may have cut a file short.
C19_GroupHoldsItsPages ==
    (Len(written) > 0 /\ s_pc # "failed") =>
        LET g == groups[LastProcessed]
            start == group_start(g)
            end == group_end(g, TotalPages0)
        IN /\ PagesData(LastWritten) = SubSeq(PagesData(Source0), start, end)
           /\ RootPages(LastWritten).count = end - start + 1

\* C20: the source file is as it was when the run started, and the document
\* written for a group is the one that group alone gives from that source.
C20_GroupsIsolated ==
    s_pc \in {"loop", "done", "failed"} =>
        /\ DocumentLoadIn(out, input) = DocumentLoadIn(out0, input)
        /\ (Len(written) > 0 /\ s_pc # "failed") =>
              LET g == groups[LastProcessed]
              IN LastWritten = split_group(out0, input, group_start(g),
                                           group_end(g, TotalPages0)).doc

\* C21: a call of split::run that selects neither 'each' nor a range spec ends
\* in an error and writes no file, and a call that selects both is carried out
\* by neither policy: it writes no file and does not succeed.
C21_ExactlyOnePolicy ==
    /\ (s_pc # "start" /\ ~each /\ ranges_spec = <<>>) =>
          /\ s_result = "err"
          /\ written = <<>>
          /\ out.files = out0.files
    /\ (each /\ ranges_spec # <<>>) =>
          /\ written = <<>>
          /\ s_result # "ok"

\* The group behind the k-th file of the run, and the name the pattern gives it.
GroupOfWrite(k) == SortedSeq(Processed)[k]
TargetOfWrite(k) ==
    LET i == GroupOfWrite(k)
    IN fill_pattern(pattern, file_stem(input), group_start(groups[i]),
                    group_end(groups[i], TotalPages0), i)

\* Without force, the k-th file of a run goes to a name that neither the
\* directory at the start nor an earlier group holds: the target if it is free,
\* else the target with the smallest free suffix.  Files there at the start are
\* as they were.
SplitKeepsExisting ==
    ~s_force =>
        /\ \A k \in 1..Len(written) :
              LET target == TargetOfWrite(k)
                  before == DOMAIN out0.files \cup {written[j] : j \in 1..(k - 1)}
                  n == CandidateIndex(target, written[k])
              IN /\ written[k] \notin before
                 /\ IF target \notin before THEN written[k] = target
                    ELSE /\ n >= 1
                         /\ written[k] = UniqueCandidate(target, n)
                         /\ \A j \in 1..(n - 1) : UniqueCandidate(target, j) \in before
        /\ \A nm \in DOMAIN out0.files :
              nm \in DOMAIN out.files /\ out.files[nm] = out0.files[nm]

\* The name ensure_unique_path returned is free and is the target or the
\* candidate with the smallest free suffix.
ReturnedIsFree ==
    LET r == u_ret[1]
        n == CandidateIndex(u_p, r)
    IN /\ ~DirExists(u_dir, u_p, r)
       /\ IF ~DirExists(u_dir, u_p, u_p) THEN r = u_p
          ELSE /\ n >= 1
               /\ r = UniqueCandidate(u_p, n)
               /\ \A j \in 1..(n - 1) : DirExists(u_dir, u_p, UniqueCandidate(u_p, j))

\* The target and every candidate _1 .. _10000 exist.
Exhausted ==
    /\ DirExists(u_dir, u_p, u_p)
    /\ \A i \in 1..MaxAttempts : DirExists(u_dir, u_p, UniqueCandidate(u_p, i))

\* C22 as stated: without force no file is written to a path that existed when
\* the path was chosen; an existing target gives the target with the smallest
\* free suffix _i, so no earlier file is overwritten.
C22_NeverWritesExistingPath ==
    /\ SplitKeepsExisting
    /\ u_pc = "returned" => ReturnedIsFree

\* C22: without force no file is written to a path that existed when the path
\* was chosen, and an existing target gives the target with the smallest free
\* suffix _i, unless the target and all of _1 .. _10000 exist: then the path is
\* the existing one with the suffix _10000.
C22_WritesFreePathUnlessExhausted ==
    /\ SplitKeepsExisting
    /\ u_pc = "returned" =>
          IF Exhausted THEN u_ret = <<UniqueCandidate(u_p, MaxAttempts)>>
          ELSE ReturnedIsFree

\* A run without force that met a taken target and wrote under a suffix.
C22_Witness ==
    /\ ~s_force
    /\ s_result = "ok"
    /\ \E k \in 1..Len(written) :
          /\ TargetOfWrite(k) \in DOMAIN out0.files
          /\ written[k] = UniqueCandidate(TargetOfWrite(k), 2)
          /\ out.files[TargetOfWrite(k)] = out0.files[TargetOfWrite(k)]

\* C25: ensure_unique_path terminates: every step of it either returns or
\* moves on to the next suffix, from _1 on, and no suffix beyond _10000 is
\* tried, so it returns within 10001 steps; when the target and all of
\* _1 .. _10000 exist, it returns the candidate with the suffix _10000.
C25_EnsureUniquePathTerminates ==
    /\ [](u_pc = "loop" => u_i \in 1..MaxAttempts)
    /\ [][u_pc = "enter" => \/ u_pc' = "returned"
                            \/ u_pc' = "loop" /\ u_i' = 1]_vars
    /\ [][u_pc = "loop" => \/ u_pc' = "returned"
                           \/ u_pc' = "loop" /\ u_i' = u_i + 1]_vars
    /\ [](u_pc = "returned" /\ Exhausted =>
            u_ret = <<UniqueCandidate(u_p, MaxAttempts)>>)

\* ensure_unique_path came back from a directory where every candidate exists.
C25_Witness ==
    /\ u_pc = "returned"
    /\ Exhausted
    /\ u_ret = <<UniqueCandidate(u_p, MaxAttempts)>>

\* The loop over the groups has failed at group s_idx + 1.
FailedInLoop == s_pc = "failed" /\ s_progress # <<>>

\* C23: when a group fails, the run ends in that error, the loop stands at
\* that group, there is one file per processed group before it and none for a
\* later one, each of those files is in the directory as its group wrote it,
\* and progress has not been finished.
C23_AbortsOnFirstFailure ==
    FailedInLoop =>
        /\ s_result = "err"
        /\ s_err \in {"load", "save", "page"}
        /\ Len(written) = Cardinality({i \in Processed : i <= s_idx})
        /\ \A k \in 1..Len(s_progress) : s_progress[k].op # "finish"
        /\ \A k \in 1..Len(written) :
              LET g == groups[GroupOfWrite(k)]
              IN /\ written[k] \in DOMAIN out.files
                 /\ out.files[written[k]] =
                       split_group(out0, input, group_start(g),
                                   group_end(g, TotalPages0)).doc

\* The steps of the progress sink that are increments.
Incs(pr) == {k \in 1..Len(pr) : pr[k].op = "inc"}

\* C24: a group whose clamped interval is empty is passed over: the step
\* changes neither the directory, the files written, the progress nor the
\* result; the groups after it are gone through, so a run that succeeds has one
\* file and one increment per group with a non-empty interval, none at all when
\* every group is skipped; and the name of a file is filled with the position
\* of its group among all groups, the skipped ones counted.
C24_EmptyGroupSkipped ==
    /\ [][(s_pc = "loop" /\ s_idx < Len(groups) /\ (s_idx + 1) \notin Processed) =>
            /\ s_idx' = s_idx + 1
            /\ UNCHANGED <<out, written, s_progress, s_pc, s_result, s_err>>]_vars
    /\ [](s_pc \in {"loop", "done", "failed"} =>
            /\ Len(written) = Cardinality({i \in Processed : i <= s_idx})
            /\ Cardinality(Incs(s_progress)) = Len(written)
            /\ \A k \in 1..Len(written) :
                  \/ written[k] = TargetOfWrite(k)
                  \/ ~s_force /\ CandidateIndex(TargetOfWrite(k), written[k]) >= 1)
    /\ [](s_result = "ok" =>
            /\ s_idx = Len(groups)
            /\ Len(written) = Cardinality(Processed)
            /\ Processed = {} => written = <<>> /\ out.files = out0.files)

\* A run over the ranges "9,1" of a two-page source: the first group is
\* skipped, the second is written under the index 2.
C24_Witness ==
    /\ s_result = "ok"
    /\ ranges_spec = <<S_9and1>>
    /\ pattern = N_base_index
    /\ Processed = {2}
    /\ written = <<<<"a", "_", "2", ".", "p", "d", "f">>>>

\* The paths of the Found events sent, in the order sent.
FoundPaths ==
    LET keep == [k \in 1..Len(sent) |-> sent[k].ev = "Found"]
        evs == SelectSeq2(sent, keep)
    IN [k \in 1..Len(evs) |-> evs[k].path]

\* The walk of the scan has ended without cancel and with well-formed globs.
ScanCompleted ==
    /\ w_pc = "end"
    /\ ~is_canceled(CallerCell)
    /\ build_globset(sc_cfg.includes).ok
    /\ build_globset(sc_cfg.excludes).ok

\* C26: a scan_stream run that is never cancelled, over the same walk and with
\* the same valid config as collect_pdfs_cfg, sends Found for exactly the paths
\* collect_pdfs_cfg returns, each once, in the order the walk yields them.
C26_StreamFindsWhatCollectReturns ==
    ScanCompleted =>
        LET blocking == collect_pdfs_cfg(sc_cfg, entries)
            hits == {k \in 1..Len(entries) : entries[k].path \in Range(blocking.paths)}
        IN /\ blocking.ok
           /\ Range(FoundPaths) = Range(blocking.paths)
           /\ Len(FoundPaths) = Len(blocking.paths)
           /\ Cardinality(Range(FoundPaths)) = Len(FoundPaths)
           /\ \A i, j \in 1..Len(FoundPaths) :
                 i < j =>
                    \E a, b \in hits :
                       /\ a < b
                       /\ entries[a].path = FoundPaths[i]
                       /\ entries[b].path = FoundPaths[j]

\* A completed scan that found two files in an order the sort would change,
\* over a walk with an entry that could not be read.
C26_Witness ==
    /\ ScanCompleted
    /\ FoundPaths = <<PathB, PathA>>
    /\ collect_pdfs_cfg(sc_cfg, entries).paths = <<PathA, PathB>>
    /\ \E k \in 1..Len(entries) : ~entries[k].ok

\* One message update with the file name, then one increment, per source.
StepsPerSource ==
    Concat([i \in 1..Len(files) |-> <<PSetMessage(file_name(files[i])), PInc(1)>>])

\* The length the sink was told last, 0 if it was told none, and its position.
ReportedLength ==
    LET ks == {k \in 1..Len(progress) : progress[k].op = "set_len"}
    IN IF ks = {} THEN 0 ELSE progress[SetMax(ks)].n
Position == Sum([k \in 1..Len(progress) |->
                    IF progress[k].op = "inc" THEN progress[k].n ELSE 0])

\* C27: a merge that succeeds, through either entry point, has told the sink
\* the number of sources as its length and then made one message update
\* followed by one increment of 1 per source, in source order, so the position
\* ends at the length; a merge that fails at source k has made fewer than k
\* increments.
C27_ProgressPerSource ==
    /\ m_result = "ok" =>
          /\ PSetLen(Len(files)) \in Range(progress)
          /\ ReportedLength = Len(files)
          /\ \E a \in 0..Len(progress) :
                /\ SubSeq(progress, a + 1, a + 2 * Len(files)) = StepsPerSource
                /\ Len(progress) >= a + 2 * Len(files)
                /\ \A j \in 1..a : progress[j].op # "inc"
                /\ \A j \in (a + 2 * Len(files) + 1)..Len(progress) :
                      progress[j].op \notin {"inc", "set_message"}
          /\ Position = ReportedLength
    /\ (m_pc = "failed" /\ m_i \in 1..Len(files)) =>
          Cardinality(Incs(progress)) < m_i

\* C28: at most one merge or split job thread is alive at a time, so no two
\* jobs write to the same output path at once.
C28_OneJobAtATime ==
    /\ Cardinality(jobs) <= 1
    /\ \A j1, j2 \in jobs : j1 # j2 => j1.target # j2.target

\* The Found events the last scan has sent so far.
LatestFound ==
    LET latest == scans[Len(scans)]
    IN SubSeq(latest.finds, 1, latest.w_idx)

\* C29: the file list holds paths the most recent scan has found, in the order
\* it found them, and 'scanning' is false only when the most recent scan has
\* sent Done.
C29_ListFromLatestScan ==
    /\ Len(app_files) <= Len(LatestFound)
    /\ \A k \in 1..Len(app_files) : app_files[k].path = LatestFound[k]
    /\ ~app_scanning => scans[Len(scans)].w_pc = "end"

\* C30: every entry of the merge-order list is an index into the file list,
\* of a checked item, and appears once; the list holds every checked item.
C30_OrderMatchesChecked ==
    /\ \A k \in 1..Len(app_order) :
          /\ app_order[k] < Len(app_files)
          /\ app_files[app_order[k] + 1].checked
    /\ \A k1, k2 \in 1..Len(app_order) : k1 # k2 => app_order[k1] # app_order[k2]
    /\ \A i \in 1..Len(app_files) : app_files[i].checked => (i - 1) \in Range(app_order)

====
